---------------------------- MODULE Spec2Model ----------------------------
(***************************************************************************)
(* A model of the decryption / key-recovery core of miyu:                  *)
(*   - WeChatDecryptService (electron/services/decryptService.ts): the      *)
(*     page cipher engine, decryptDatabase / validateKey / decryptPage;     *)
(*   - ImageKeyService (unnamed/part_004): the process-memory key scanner,  *)
(*     getImageKeys / getAesKeyFromMemory / verifyKey / getXorKey.          *)
(*                                                                         *)
(* Byte buffers of the page engine are kept run-length encoded: a buffer is *)
(* a sequence of runs <<sym, off, len>>, "len bytes of content sym starting *)
(* at its byte off".  sym 0 is the zero byte; every other sym is content    *)
(* none of whose bytes is zero.  Slicing, concatenation and comparison are  *)
(* exact on this encoding, so the program's own sizes (4096-byte pages,     *)
(* 16-byte salt, 80-byte reserve) are kept as they are.                      *)
(*                                                                         *)
(* The cryptographic primitives are deterministic functions with a small    *)
(* range: what the program does with their results (compare, write, pass    *)
(* on) is modelled exactly, and a collision, improbable in the program, is  *)
(* simply reachable in the model.                                           *)
(***************************************************************************)
EXTENDS Integers, Sequences, FiniteSets, TLC

(***************************************************************************)
(* Constants of decryptService.ts                                          *)
(***************************************************************************)
PAGE_SIZE == 4096
KEY_SIZE == 32
SALT_SIZE == 16
IV_SIZE == 16
HMAC_SIZE == 64
AES_BLOCK_SIZE == 16
ITER_COUNT == 256000
MAC_ITER_COUNT == 2
MAC_SALT_XOR == 58
MAGIC_LEN == 15
PROGRESS_EVERY == 50

\* Math.ceil((IV_SIZE + HMAC_SIZE) / AES_BLOCK_SIZE) * AES_BLOCK_SIZE
RESERVE ==
    ((IV_SIZE + HMAC_SIZE + AES_BLOCK_SIZE - 1) \div AES_BLOCK_SIZE) * AES_BLOCK_SIZE

(***************************************************************************)
(* Bounds of the model                                                     *)
(***************************************************************************)
\* the longest input file, in pages
MaxPages == 3
\* the length of a long input file, in pages: more than one cadence of the
\* progress report
LongPages == 52
\* the length of a truncated last page (a file whose size is no multiple of
\* PAGE_SIZE ends in a page of this many bytes)
ShortPage == 100

(***************************************************************************)
(* Content symbols of run-length encoded buffers                           *)
(***************************************************************************)
\* magic: the 15 bytes "SQLite format 3"; salt, body, iv: the salt, the
\* ciphertext bodies and the IVs of input files; old: an earlier output file;
\* plain: the pages of a plaintext database; mac + h and dec + h: HMAC digests
\* and AES plaintexts; xor: xorBytes moves a symbol by xor * value
Sym == [magic |-> 1, salt |-> 2, body |-> 10, iv |-> 20, old |-> 30,
        plain |-> 40, mac |-> 100, dec |-> 200, xor |-> 1000]
\* the ranges of the modelled primitives
Mod == [mac |-> 7, dec |-> 11, digest |-> 10007]

Min(a, b) == IF a < b THEN a ELSE b
Max(a, b) == IF a > b THEN a ELSE b

(***************************************************************************)
(* Buffers                                                                  *)
(***************************************************************************)
Run(sym, off, len) == <<sym, IF sym = 0 THEN 0 ELSE off, len>>

\* the two halves of a sequence of at least two elements
Left(q) == SubSeq(q, 1, Len(q) \div 2)
Right(q) == SubSeq(q, Len(q) \div 2 + 1, Len(q))

RECURSIVE Flatten(_)
\* the elements of a sequence of sequences, in order
Flatten(qq) ==
    IF qq = <<>> THEN <<>>
    ELSE IF Len(qq) = 1 THEN qq[1]
    ELSE Flatten(Left(qq)) \o Flatten(Right(qq))

RECURSIVE BLen(_)
\* Buffer.length
BLen(b) ==
    IF b = <<>> THEN 0
    ELSE IF Len(b) = 1 THEN b[1][3]
    ELSE BLen(Left(b)) + BLen(Right(b))

RECURSIVE Norm(_)
\* the canonical encoding: no empty run, adjacent pieces of one content merged
Norm(b) ==
    IF b = <<>> THEN <<>>
    ELSE IF Len(b) = 1 THEN (IF b[1][3] = 0 THEN <<>> ELSE b)
    ELSE LET l == Norm(Left(b))
             r == Norm(Right(b))
             x == l[Len(l)]
             y == r[1]
         IN  IF l = <<>> THEN r
             ELSE IF r = <<>> THEN l
             ELSE IF y[1] = x[1] /\ (x[1] = 0 \/ y[2] = x[2] + x[3])
             THEN SubSeq(l, 1, Len(l) - 1) \o <<Run(x[1], x[2], x[3] + y[3])>> \o Tail(r)
             ELSE l \o r

RECURSIVE Starts(_)
\* the offset in the buffer of each run's first byte
Starts(b) ==
    IF Len(b) <= 1 THEN [i \in DOMAIN b |-> 0]
    ELSE LET l == Starts(Left(b))
             r == Starts(Right(b))
             n == BLen(Left(b))
         IN  l \o [i \in DOMAIN r |-> r[i] + n]

\* the part of each run within the bytes a .. e-1 (empty for a run outside)
SliceRaw(b, a, e) ==
    LET starts == Starts(b)
    IN  [i \in DOMAIN b |->
            LET lo == Max(a, starts[i])
                hi == Min(e, starts[i] + b[i][3])
            IN  Run(b[i][1], b[i][2] + (lo - starts[i]), Max(0, hi - lo))]

\* Buffer.slice(start, end): the bytes start .. end-1, clamped to the buffer
BSlice(b, start, end) == Norm(SliceRaw(b, Max(start, 0), end))

\* Buffer.concat
BConcat(a, b) == Norm(a \o b)

\* Buffer.alloc(n): n zero bytes
Zeros(n) == Norm(<<Run(0, 0, n)>>)

\* the zero test left out: no page is taken for a zero page
AllZeroNever(b) == FALSE

\* the loop "for (i < n) if (buf[i] !== 0) allZeros = false"
AllZero(b) == \A i \in DOMAIN b : b[i][1] = 0

RECURSIVE BDigest(_)
\* a digest of a buffer's content, the argument of the keyed primitives
BDigest(b) ==
    IF b = <<>> THEN 1
    ELSE (BDigest(Tail(b)) * 31 + Head(b)[1] * 7 + Head(b)[2] * 3 + Head(b)[3])
            % Mod.digest

RECURSIVE SeqDigest(_)
\* a digest of a byte sequence
SeqDigest(s) ==
    IF s = <<>> THEN 1
    ELSE (SeqDigest(Tail(s)) * 31 + Head(s) + 1) % Mod.digest

\* Buffer.from(SQLITE_HEADER): "SQLite format 3" and the byte 0
SQLITE_HEADER == <<Run(Sym.magic, 0, MAGIC_LEN), Run(0, 0, 1)>>


(***************************************************************************)
(* Hex keys                                                                 *)
(***************************************************************************)
HexDigits == <<"0", "1", "2", "3", "4", "5", "6", "7", "8", "9",
               "a", "b", "c", "d", "e", "f">>
IsHex(c) == \E i \in DOMAIN HexDigits : HexDigits[i] = c
HexVal(c) == (CHOOSE i \in DOMAIN HexDigits : HexDigits[i] = c) - 1

RECURSIVE HexDecode(_)
\* Buffer.from(hexKey, 'hex'): one byte per pair of hex digits, cut at the
\* first pair that is not hex; a last single digit is dropped
HexDecode(s) ==
    IF Len(s) < 2 \/ ~IsHex(s[1]) \/ ~IsHex(s[2]) THEN <<>>
    ELSE <<16 * HexVal(s[1]) + HexVal(s[2])>> \o HexDecode(SubSeq(s, 3, Len(s)))

(***************************************************************************)
(* Cryptographic primitives                                                 *)
(***************************************************************************)
\* xorBytes(data, xorValue)
xorBytes(data, xorValue) ==
    [i \in DOMAIN data |->
        <<IF data[i][1] \div Sym.xor = xorValue
          THEN data[i][1] - Sym.xor * xorValue
          ELSE data[i][1] + Sym.xor * xorValue,
          data[i][2], data[i][3]>>]

\* crypto.pbkdf2Sync(password, salt, iterations, KEY_SIZE, 'sha512')
pbkdf2Sync(password, salt, iterations) ==
    (password * 131 + BDigest(salt) * 17 + iterations) % Mod.digest

\* deriveKeys(key, salt)
deriveKeys(key, salt) ==
    LET encKey == pbkdf2Sync(SeqDigest(key), salt, ITER_COUNT)
        macSalt == xorBytes(salt, MAC_SALT_XOR)
        macKey == pbkdf2Sync(encKey, macSalt, MAC_ITER_COUNT)
    IN  [encKey |-> encKey, macKey |-> macKey]

\* createHmac('sha512', macKey).update(data).update(LE32(pageNo)).digest()
HmacSha512(macKey, data, pageNo) ==
    LET h == (macKey * 13 + BDigest(data) * 5 + pageNo) % Mod.mac
    IN  Norm(<<Run(IF h = 0 THEN 0 ELSE Sym.mac + h, 0, HMAC_SIZE)>>)

\* createDecipheriv('aes-256-cbc', encKey, iv), setAutoPadding(false),
\* update(encrypted) ++ final()
AesCbcDecrypt(encKey, iv, encrypted) ==
    LET h == (encKey * 3 + BDigest(iv) * 5 + BDigest(encrypted)) % Mod.dec
    IN  Norm(<<Run(Sym.dec + h, 0, BLen(encrypted))>>)

\* the end of the HMAC'ed part of a page, where the stored HMAC begins
DataEnd == PAGE_SIZE - RESERVE + IV_SIZE

\* fs.readSync(fd, buf, 0, PAGE_SIZE, position): the bytes read
BytesRead(file, position) == Max(0, Min(PAGE_SIZE, BLen(file) - position))
\* fs.readSync(fd, buf, 0, PAGE_SIZE, position): buf afterwards
ReadInto(buf, file, position) ==
    BConcat(BSlice(file, position, position + PAGE_SIZE),
            BSlice(buf, BytesRead(file, position), PAGE_SIZE))

\* IsPlainHeader comparing 16 bytes of the page with the 15 of the magic
IsPlainHeaderOffByOne(page1) ==
    BSlice(page1, 0, MAGIC_LEN + 1) = BSlice(SQLITE_HEADER, 0, MAGIC_LEN)

\* page1.slice(0, 15).toString() === SQLITE_HEADER.slice(0, 15)
IsPlainHeader(page1) == BSlice(page1, 0, MAGIC_LEN) = BSlice(SQLITE_HEADER, 0, MAGIC_LEN)

\* validateKey without the comparison of the two HMACs
validateKeyNoCompare(file, hexKey, ioFails) ==
    [valid |-> Len(HexDecode(hexKey)) = KEY_SIZE /\ ~ioFails,
     io |-> TRUE, derived |-> 1, hmacs |-> 1]

\* validateKey(dbPath, hexKey); ioFails: one of its file operations throws.
\* Returns the verdict, and how many key derivations and HMACs it computed.
validateKey(file, hexKey, ioFails) ==
    LET key == HexDecode(hexKey)
        page1 == ReadInto(Zeros(PAGE_SIZE), file, 0)
        salt == BSlice(page1, 0, SALT_SIZE)
        keys == deriveKeys(key, salt)
        calculatedMAC == HmacSha512(keys.macKey, BSlice(page1, SALT_SIZE, DataEnd), 1)
        storedMAC == BSlice(page1, DataEnd, DataEnd + HMAC_SIZE)
    IN  IF Len(key) # KEY_SIZE THEN [valid |-> FALSE, io |-> FALSE, derived |-> 0, hmacs |-> 0]
        ELSE IF ioFails THEN [valid |-> FALSE, io |-> TRUE, derived |-> 0, hmacs |-> 0]
        ELSE IF IsPlainHeader(page1) THEN [valid |-> TRUE, io |-> TRUE, derived |-> 0, hmacs |-> 0]
        ELSE [valid |-> calculatedMAC = storedMAC, io |-> TRUE, derived |-> 1, hmacs |-> 1]

\* decryptPage throwing on an HMAC mismatch instead of logging it
decryptPageStrict(pageBuf, encKey, macKey, pageNum) ==
    LET offset == IF pageNum = 0 THEN SALT_SIZE ELSE 0
        calculatedMAC == HmacSha512(macKey, BSlice(pageBuf, offset, DataEnd), pageNum + 1)
        storedMAC == BSlice(pageBuf, DataEnd, DataEnd + HMAC_SIZE)
    IN  [result |-> <<>>, macOk |-> calculatedMAC = storedMAC,
         throws |-> calculatedMAC # storedMAC]

\* decryptPage(pageBuf, encKey, macKey, pageNum): the page returned, whether
\* its HMAC verified (a mismatch is only logged by console.warn), and whether
\* the decipher throws (final() without padding on a partial block, or an IV
\* that is not IV_SIZE bytes)
decryptPage(pageBuf, encKey, macKey, pageNum) ==
    LET offset == IF pageNum = 0 THEN SALT_SIZE ELSE 0
        calculatedMAC == HmacSha512(macKey, BSlice(pageBuf, offset, DataEnd), pageNum + 1)
        storedMAC == BSlice(pageBuf, DataEnd, DataEnd + HMAC_SIZE)
        iv == BSlice(pageBuf, PAGE_SIZE - RESERVE, PAGE_SIZE - RESERVE + IV_SIZE)
        encrypted == BSlice(pageBuf, offset, PAGE_SIZE - RESERVE)
        decrypted == AesCbcDecrypt(encKey, iv, encrypted)
    IN  [result |-> BConcat(decrypted, BSlice(pageBuf, PAGE_SIZE - RESERVE, BLen(pageBuf))),
         macOk |-> calculatedMAC = storedMAC,
         throws |-> BLen(encrypted) % AES_BLOCK_SIZE # 0 \/ BLen(iv) # IV_SIZE]


(***************************************************************************)
(* ImageKeyService (unnamed/part_004): constants                            *)
(***************************************************************************)
MEM_COMMIT == 4096
MEM_PRIVATE == 131072
MEM_MAPPED == 262144
MEM_IMAGE == 16777216
PAGE_NOACCESS == 1
PAGE_GUARD == 256
\* "if (regionSize > 100 * 1024 * 1024) continue"
MAX_REGION_SIZE == 100 * 1024 * 1024
\* the tail of a chunk carried into the next one
overlap == 65
\* characters of a key candidate, and of the AES key cut from it
CAND_CHARS == 32
AES_KEY_CHARS == 16
\* the retry loop with one pass more
maxRetriesOneMore == 3 + 1

\* "const maxRetries = 3"
maxRetries == 3
\* V2 templates: the sample is bytes.subarray(0x0f, 0x1f)
SAMPLE_START == 15
SAMPLE_END == 31
XOR_JPEG_FF == 255
XOR_JPEG_D9 == 217

\* the chunk size of the model: chunkSize is 4 * 1024 * 1024 in the program,
\* and is scaled down so that a region of a few chunks can be enumerated
MaxChunk == 72
chunkSize == MaxChunk

(***************************************************************************)
(* Bytes                                                                    *)
(***************************************************************************)
RECURSIVE Xor8(_, _)
\* a ^ b on bytes
Xor8(a, b) ==
    IF a = 0 /\ b = 0 THEN 0
    ELSE 2 * Xor8(a \div 2, b \div 2) + ((a + b) % 2)

RECURSIVE SumSeq(_)
SumSeq(s) == IF s = <<>> THEN 0 ELSE Head(s) + SumSeq(Tail(s))

\* buf.subarray(start, end) on a byte sequence (0-based, end exclusive)
Subarray(buf, start, end) == SubSeq(buf, start + 1, Min(end, Len(buf)))

\* the byte buf[i] (0-based)
At(buf, i) == buf[i + 1]

\* isAlphaNumAscii(byte)
isAlphaNumAscii(byte) ==
    \/ (byte >= 97 /\ byte <= 122)
    \/ (byte >= 65 /\ byte <= 90)
    \/ (byte >= 48 /\ byte <= 57)

\* isUtf16AsciiKey(buf, start)
isUtf16AsciiKey(buf, start) ==
    /\ start + 2 * CAND_CHARS <= Len(buf)
    /\ \A j \in 0..(CAND_CHARS - 1) :
          /\ At(buf, start + j * 2 + 1) = 0
          /\ isAlphaNumAscii(At(buf, start + j * 2))

\* crypto.createDecipheriv('aes-128-ecb', key, null) on one block: every byte
\* of the result depends on every byte of the key
AesEcbDecrypt(key, block) ==
    [i \in DOMAIN block |-> (block[i] + 256 * (Len(key) + 1) - key[i] - SumSeq(key)) % 256]
\* the encryption that AesEcbDecrypt undoes
AesEcbEncrypt(key, block) ==
    [i \in DOMAIN block |-> (block[i] + key[i] + SumSeq(key)) % 256]

\* verifyKey that tests the shape of the key and not what it decrypts
verifyKeyNoJpegTest(ciphertext, keyBytes) ==
    /\ Len(keyBytes) >= AES_KEY_CHARS
    /\ Len(ciphertext) % AES_BLOCK_SIZE = 0
    /\ ciphertext # <<>>

\* verifyKey(ciphertext, keyBytes); the decipher throws, and verifyKey
\* answers false, unless the key has 16 bytes and the sample whole blocks
verifyKey(ciphertext, keyBytes) ==
    LET key == Subarray(keyBytes, 0, AES_KEY_CHARS)
    IN  IF Len(key) # AES_KEY_CHARS \/ Len(ciphertext) % AES_BLOCK_SIZE # 0
           \/ ciphertext = <<>>
        THEN FALSE
        ELSE LET decrypted == AesEcbDecrypt(key, Subarray(ciphertext, 0, AES_BLOCK_SIZE))
             IN  decrypted[1] = 255 /\ decrypted[2] = 216 /\ decrypted[3] = 255

\* keyBytes.toString('ascii')
AsciiString(keyBytes) == [i \in DOMAIN keyBytes |-> keyBytes[i] % 128]

\* the test of the ASCII search at index i: a non-alphanumeric byte, 32
\* alphanumeric bytes, a non-alphanumeric byte
AsciiKeyAt(dataToScan, i) ==
    /\ ~isAlphaNumAscii(At(dataToScan, i))
    /\ \A j \in 1..CAND_CHARS : isAlphaNumAscii(At(dataToScan, i + j))
    /\ ~isAlphaNumAscii(At(dataToScan, i + CAND_CHARS + 1))

\* "for (let i = 0; i < dataToScan.length - 34; i++)": the last index tried
AsciiLastIndex(dataToScan) == Len(dataToScan) - (CAND_CHARS + 2) - 1
\* "for (let i = 0; i < dataToScan.length - 65; i++)": the last index tried
Utf16LastIndex(dataToScan) == Len(dataToScan) - (2 * CAND_CHARS + 1) - 1

\* the indices of a set in increasing order
Ascending(idx) ==
    [n \in 1..Cardinality(idx) |->
        CHOOSE k \in idx : Cardinality({m \in idx : m < k}) = n - 1]

\* the keyBytes the ASCII search passes to verifyKey from index i on, in order
AsciiCandidates(dataToScan, i) ==
    LET at == Ascending({k \in i..AsciiLastIndex(dataToScan) : AsciiKeyAt(dataToScan, k)})
    IN  [n \in DOMAIN at |-> Subarray(dataToScan, at[n] + 1, at[n] + CAND_CHARS + 1)]

\* the keyBytes the UTF-16 search passes to verifyKey from index i on, in order
Utf16Candidates(dataToScan, i) ==
    LET at == Ascending({k \in i..Utf16LastIndex(dataToScan) : isUtf16AsciiKey(dataToScan, k)})
    IN  [n \in DOMAIN at |-> [j \in 1..CAND_CHARS |-> At(dataToScan, at[n] + (j - 1) * 2)]]

\* the scan of one dataToScan: the candidates passed to verifyKey, up to and
\* including the first that verifies, and the key returned (<<>>: none)
ScanData(dataToScan, ciphertext) ==
    LET cands == AsciiCandidates(dataToScan, 0) \o Utf16Candidates(dataToScan, 0)
        hits == {i \in DOMAIN cands : verifyKey(ciphertext, cands[i])}
        first == IF hits = {} THEN 0 ELSE CHOOSE i \in hits : \A k \in hits : i <= k
    IN  [tried |-> IF first = 0 THEN cands ELSE SubSeq(cands, 1, first),
         key |-> IF first = 0 THEN <<>> ELSE AsciiString(cands[first])]

\* "const start = dataToScan.length - overlap;
\*  trailing = dataToScan.subarray(start < 0 ? 0 : start)"
Trailing(dataToScan) ==
    Subarray(dataToScan, Max(Len(dataToScan) - overlap, 0), Len(dataToScan))

\* VirtualQueryEx(hProcess, address, ...): the index in the memory map of the
\* region that holds address, 0 when there is none
VirtualQueryEx(map, address) ==
    IF \E k \in DOMAIN map : map[k].BaseAddress <= address
                             /\ address < map[k].BaseAddress + map[k].RegionSize
    THEN CHOOSE k \in DOMAIN map : map[k].BaseAddress <= address
                                   /\ address < map[k].BaseAddress + map[k].RegionSize
    ELSE 0

\* "(protect & PAGE_NOACCESS) === 0 && (protect & PAGE_GUARD) === 0"
Readable(protect) ==
    /\ (protect \div PAGE_NOACCESS) % 2 = 0
    /\ (protect \div PAGE_GUARD) % 2 = 0

RECURSIVE getMemoryRegions(_, _)
\* getMemoryRegions(hProcess), from address on: the regions kept, as indexes
\* of the memory map
getMemoryRegions(map, address) ==
    LET k == VirtualQueryEx(map, address) IN
    IF k = 0 \/ map[k].RegionSize <= 0 THEN <<>>
    ELSE (IF /\ map[k].State = MEM_COMMIT
             /\ Readable(map[k].Protect)
             /\ map[k].Type \in {MEM_PRIVATE, MEM_MAPPED, MEM_IMAGE}
          THEN <<k>> ELSE <<>>)
         \o getMemoryRegions(map, address + map[k].RegionSize)

\* getXorKey without the test of the last byte against 0xD9
getXorKeyNoCheck(templateFiles) ==
    LET usable == {i \in DOMAIN templateFiles : Len(templateFiles[i]) >= 2}
        first == CHOOSE i \in usable : \A k \in usable : i <= k
    IN  IF usable = {} THEN -1
        ELSE Xor8(At(templateFiles[first], Len(templateFiles[first]) - 2), XOR_JPEG_FF)

\* getXorKey(templateFiles): -1 stands for null.  The pairs are counted in the
\* order of the files, and the first pair with the highest count wins.
getXorKey(templateFiles) ==
    LET usable == {i \in DOMAIN templateFiles : Len(templateFiles[i]) >= 2}
        Pair(i) == <<At(templateFiles[i], Len(templateFiles[i]) - 2),
                     At(templateFiles[i], Len(templateFiles[i]) - 1)>>
        Count(i) == Cardinality({k \in usable : Pair(k) = Pair(i)})
        First(i) == \A k \in usable : Pair(k) = Pair(i) => i <= k
        most == CHOOSE i \in usable :
                    /\ First(i)
                    /\ \A k \in usable : First(k) =>
                          (Count(k) < Count(i) \/ (Count(k) = Count(i) /\ i <= k))
        xorKey == Xor8(Pair(most)[1], XOR_JPEG_FF)
        check == Xor8(Pair(most)[2], XOR_JPEG_D9)
    IN  IF usable = {} THEN -1
        ELSE IF xorKey = check THEN xorKey ELSE -1

\* the V2 signature 0x07 0x08 0x56 0x32 0x08 0x07
V2_SIGNATURE == <<7, 8, 86, 50, 8, 7>>

\* getCiphertextFromTemplate(templateFiles): <<>> stands for null
getCiphertextFromTemplate(templateFiles) ==
    LET v2 == {i \in DOMAIN templateFiles :
                  /\ Len(templateFiles[i]) >= SAMPLE_END
                  /\ Subarray(templateFiles[i], 0, Len(V2_SIGNATURE)) = V2_SIGNATURE}
    IN  IF v2 = {} THEN <<>>
        ELSE Subarray(templateFiles[CHOOSE i \in v2 : \A k \in v2 : i <= k],
                      SAMPLE_START, SAMPLE_END)

(***************************************************************************)
(* State                                                                    *)
(***************************************************************************)
VARIABLES
    \* decryptDatabase: its arguments and the files it works on
    hexKey,         \* the hexKey argument, a sequence of characters
    onProgress,     \* whether a progress callback was passed
    inFile,         \* the content of inputPath
    outDirExists,   \* whether path.dirname(outputPath) exists
    outExists,      \* whether outputPath exists
    outFile,        \* the content of outputPath
    priorOut,       \* outputPath before the call: [exists, data]
    \* decryptDatabase: its locals and position
    pc,             \* "call", "open", "copy", "validate", "prepare", "loop",
                    \* "yield", "done"
    result,         \* the value returned: "none" until the call returns
    fdOpen,         \* fd is open
    outFdOpen,      \* outFd is open
    page1,
    pageBuf,
    pageNum,
    totalPages,
    encKey,
    macKey,
    \* decryptDatabase: what it did so far
    ioLog,          \* the file operations attempted, in order
    nDerive,        \* calls of deriveKeys
    nHmac,          \* HMACs computed
    decryptedPages, \* the page numbers passed to decryptPage, in order
    macFailPages,   \* the pages whose HMAC did not verify in decryptPage
    pagesWritten,   \* pages written to outFd
    progressLog,    \* the calls of onProgress: <<current, total>>
    threw,          \* a file operation or the progress callback threw
    \* getImageKeys: its arguments and the world it works on
    templateFiles,  \* what findTemplateDatFiles(userDir) returns: file contents
    memMap,         \* the memory map of process wechatPid, with its bytes
    resident,       \* whether the bytes of memMap are in memory yet (they are
                    \* blank until the user opens an image)
    kernel32,       \* the module-level kernel32: "null" or "loaded"
    bindings,       \* which of MEMORY_BASIC_INFORMATION, OpenProcess, ... are set
    \* getImageKeys and getAesKeyFromMemory: locals and position
    imgPc,          \* "call", "attempt", "scan", "retry", "delay", "done"
    imgResult,      \* the value returned by getImageKeys
    ciphertext,
    attempt,
    regions,        \* getMemoryRegions(hProcess), as indexes of memMap
    regionIdx,      \* the region of the "for ... of regions" loop
    offset,
    trailing,       \* <<>> stands for null
    handles,        \* process handles open
    \* what they did so far
    verifyLog,      \* the keyBytes passed to verifyKey in this attempt
    scanFrom,       \* where in the region the chunks read one after the other
                    \* without a failed read began (-1: no chunk read yet)
    imgLog,         \* the events of the call, in order
    \* fetchAndDecryptImage (snsService.ts): a payload was downloaded and is
    \* decrypted with a keystream
    mKind,          \* "video" or "image"
    mKey,           \* the key argument, a sequence of characters (NoKey: none)
    mXEnc,          \* whether the response carries the header x-enc: 1
    mRaw,           \* the payload as downloaded
    mWasm,          \* whether WasmService.getKeystream answers or throws
    mPc,            \* "idle", "fetched", "done"
    mOut,           \* the data passed to resolve
    ksLog,          \* the keystreams obtained: [key, length, stream]
    \* decryptEmojiAes (snsService.ts): the envelope search
    encData,        \* the envelope: [len, b0, b8, b9, payloadSize]
    aesKey,         \* the aesKey argument, a sequence of characters
    envPc,          \* "idle", "call", "search", "done"
    envTrials,      \* the trials of the call in the order of the code
    envIdx,         \* the trials made so far
    envLast,        \* what the decipher of the last trial made did
    envOutcomes,    \* for each trial made, whether it returned a Buffer
    envResult,      \* [isNull, data]: null or the Buffer returned
    \* a second call of decryptDatabase, on the same event loop
    parked,         \* the arguments, files and locals of the call that is not running
    switches        \* how many times the event loop went from one call to the other

decVars == <<hexKey, onProgress, inFile, outDirExists, outExists, outFile, priorOut,
             pc, result, fdOpen, outFdOpen, page1, pageBuf, pageNum, totalPages,
             encKey, macKey, ioLog, nDerive, nHmac, decryptedPages, macFailPages,
             pagesWritten, progressLog, threw>>

imgVars == <<templateFiles, memMap, resident, kernel32, bindings, imgPc, imgResult,
             ciphertext, attempt, regions, regionIdx, offset, trailing, handles,
             verifyLog, scanFrom, imgLog>>

mediaVars == <<mKind, mKey, mXEnc, mRaw, mWasm, mPc, mOut, ksLog>>

envVars == <<encData, aesKey, envPc, envTrials, envIdx, envLast, envOutcomes, envResult>>

snsVars == <<mediaVars, envVars>>

callVars == <<parked, switches>>

vars == <<decVars, imgVars, snsVars, callVars>>

\* the results of decryptDatabase: { success: true }, and { success: false,
\* error } with error '密钥长度错误', '密钥验证失败' or String(e)
RES_OK == "success"
RES_KEY_LENGTH == "error: key length"
RES_KEY_INVALID == "error: key validation failed"
RES_EXCEPTION == "error: exception"

(***************************************************************************)
(* Inputs                                                                   *)
(***************************************************************************)
Rep(c, n) == [i \in 1..n |-> c]

\* the key the input files are encrypted under, as 64 hex digits
HexKeyGood == [i \in 1..(2 * KEY_SIZE) |-> IF i % 2 = 1 THEN "3" ELSE "c"]
\* well-formed keys that are not the files' key
HexKeyZero == Rep("0", 2 * KEY_SIZE)
HexKeyOther == Rep("7", 2 * KEY_SIZE)
\* 65 digits: the last one is dropped, the first 64 are the files' key
HexKeyOdd == HexKeyGood \o <<"f">>
\* 30 digits (15 bytes), 66 digits (33 bytes), a "g" as 11th character
\* (5 bytes), and the empty string
HexKeyShort == Rep("3", 30)
HexKeyLong == HexKeyGood \o <<"0", "0">>
HexKeyNotHex == [HexKeyGood EXCEPT ![11] = "g"]
HexKeys == {HexKeyGood, HexKeyZero, HexKeyOther, HexKeyOdd,
            HexKeyShort, HexKeyLong, HexKeyNotHex, <<>>}

FileKey == HexDecode(HexKeyGood)
FileSalt == <<Run(Sym.salt, 0, SALT_SIZE)>>

PageKinds == {"good", "bad", "zero"}

\* page n of an encrypted file: salt (page 0 only), ciphertext, IV, HMAC.
\* "good": the HMAC is the one the file's key gives; "bad": it is not;
\* "zero": 4096 zero bytes
EncPage(n, kind) ==
    LET skip == IF n = 0 THEN SALT_SIZE ELSE 0
        head == (IF n = 0 THEN FileSalt ELSE <<>>)
                \o <<Run(Sym.body + n, 0, PAGE_SIZE - RESERVE - skip),
                     Run(Sym.iv + n, 0, IV_SIZE)>>
        mac == HmacSha512(deriveKeys(FileKey, FileSalt).macKey,
                          BSlice(head, skip, DataEnd), n + 1)
    IN  CASE kind = "zero" -> Zeros(PAGE_SIZE)
          [] kind = "good" -> Norm(head \o mac)
          [] kind = "bad" -> Norm(head \o <<Run(Sym.mac + Mod.mac, 0, HMAC_SIZE)>>)

\* the pages n .. Len(kinds) (1-based) of a file, one after the other
EncPages(kinds, n) ==
    Norm(Flatten([i \in 1..(Len(kinds) - n + 1) |-> EncPage(n + i - 2, kinds[n + i - 1])]))

\* an encrypted file of Len(kinds) pages whose last page has lastLen bytes
EncDb(kinds, lastLen) ==
    BSlice(EncPages(kinds, 1), 0, (Len(kinds) - 1) * PAGE_SIZE + lastLen)

\* an already decrypted file of n pages
PlainDb(n) == BConcat(SQLITE_HEADER, <<Run(Sym.plain, 0, n * PAGE_SIZE - BLen(SQLITE_HEADER))>>)

KindSeqs == UNION {[1..n -> PageKinds] : n \in 1..MaxPages}

\* encrypted files of whole pages of every kind, and files whose last page,
\* of every kind, is short, behind good pages
InFiles ==
    {EncDb(k, PAGE_SIZE) : k \in KindSeqs}
    \cup {EncDb(k, ShortPage) :
             k \in {q \in KindSeqs : \A i \in 1..(Len(q) - 1) : q[i] = "good"}}
    \cup {PlainDb(n) : n \in 1..MaxPages}
    \cup {BSlice(PlainDb(1), 0, ShortPage), <<>>}

\* a long encrypted file: good pages, and a page of the given kind where the
\* second progress report falls
LongKinds(kind) == [i \in 1..LongPages |-> IF i = PROGRESS_EVERY + 1 THEN kind ELSE "good"]
LongFiles == {EncDb(LongKinds(kind), PAGE_SIZE) : kind \in PageKinds} \cup {PlainDb(1)}

\* outputPath before the call: absent, or the output of an earlier attempt
PriorOuts == {[exists |-> FALSE, data |-> <<>>],
              [exists |-> TRUE, data |-> BConcat(SQLITE_HEADER,
                                    <<Run(Sym.old, 0, PAGE_SIZE - BLen(SQLITE_HEADER))>>)]}

(***************************************************************************)
(* decryptDatabase                                                          *)
(***************************************************************************)
InitDecWith(keys, files) ==
    /\ hexKey \in keys
    /\ onProgress \in BOOLEAN
    /\ inFile \in files
    /\ outDirExists \in BOOLEAN
    /\ priorOut \in {p \in PriorOuts : p.exists => outDirExists}
    /\ outExists = priorOut.exists
    /\ outFile = priorOut.data
    /\ pc = "call"
    /\ result = "none"
    /\ fdOpen = FALSE
    /\ outFdOpen = FALSE
    /\ page1 = <<>>
    /\ pageBuf = <<>>
    /\ pageNum = 0
    /\ totalPages = 0
    /\ encKey = 0
    /\ macKey = 0
    /\ ioLog = <<>>
    /\ nDerive = 0
    /\ nHmac = 0
    /\ decryptedPages = <<>>
    /\ macFailPages = {}
    /\ pagesWritten = 0
    /\ progressLog = <<>>
    /\ threw = FALSE

InitDec == InitDecWith(HexKeys, InFiles)

decArgs == <<hexKey, onProgress, inFile, priorOut>>

\* no catch: the exception leaves the call
Uncaught(fault) ==
    /\ pc' = "done"
    /\ result' = "uncaught exception"
    /\ threw' = (threw \/ fault)

\* an exception reaches "catch (e)": return { success: false, error: String(e) }
Catch(fault) ==
    /\ pc' = "done"
    /\ result' = RES_EXCEPTION
    /\ threw' = (threw \/ fault)

\* DecCheckKey without the length test
DecCheckKeyNoTest ==
    /\ pc = "call"
    /\ pc' = "open"
    /\ UNCHANGED <<imgVars, snsVars, callVars, decArgs, outDirExists, outExists, outFile, fdOpen, outFdOpen,
                   page1, pageBuf, pageNum, totalPages, encKey, macKey, ioLog,
                   nDerive, nHmac, decryptedPages, macFailPages, pagesWritten,
                   progressLog, threw, result>>

\* const key = Buffer.from(hexKey, 'hex'); if (key.length !== KEY_SIZE) return
DecCheckKey ==
    /\ pc = "call"
    /\ IF Len(HexDecode(hexKey)) # KEY_SIZE
       THEN pc' = "done" /\ result' = RES_KEY_LENGTH
       ELSE pc' = "open" /\ result' = result
    /\ UNCHANGED <<imgVars, snsVars, callVars, decArgs, outDirExists, outExists, outFile, fdOpen, outFdOpen,
                   page1, pageBuf, pageNum, totalPages, encKey, macKey, ioLog,
                   nDerive, nHmac, decryptedPages, macFailPages, pagesWritten,
                   progressLog, threw>>

\* statSync, openSync(inputPath, 'r'), readSync of page 1, the magic test
DecOpenInput ==
    /\ pc = "open"
    /\ \E f \in {"ok", "stat", "open", "read"} :
         /\ ioLog' = ioLog \o CASE f = "stat" -> <<"stat">>
                               [] f = "open" -> <<"stat", "open">>
                               [] OTHER -> <<"stat", "open", "read">>
         /\ fdOpen' = (f \in {"ok", "read"})
         /\ IF f = "ok"
            THEN /\ totalPages' = (BLen(inFile) + PAGE_SIZE - 1) \div PAGE_SIZE
                 /\ page1' = ReadInto(Zeros(PAGE_SIZE), inFile, 0)
                 /\ pc' = IF IsPlainHeader(page1') THEN "copy" ELSE "validate"
                 /\ UNCHANGED <<result, threw>>
            ELSE /\ Catch(TRUE)
                 /\ UNCHANGED <<totalPages, page1>>
    /\ UNCHANGED <<imgVars, snsVars, callVars, decArgs, outDirExists, outExists, outFile, outFdOpen,
                   pageBuf, pageNum, encKey, macKey,
                   nDerive, nHmac, decryptedPages, macFailPages, pagesWritten,
                   progressLog>>

\* already decrypted: closeSync(fd), copyFileSync(inputPath, outputPath).
\* copyFileSync throws when the directory of outputPath does not exist.
DecCopy ==
    /\ pc = "copy"
    /\ \E f \in (IF outDirExists THEN {"ok"} ELSE {}) \cup {"close", "copy"} :
         /\ ioLog' = ioLog \o (IF f = "close" THEN <<"close">> ELSE <<"close", "copy">>)
         /\ fdOpen' = (f = "close")
         /\ IF f = "ok"
            THEN /\ outExists' = TRUE
                 /\ outFile' = inFile
                 /\ pc' = "done"
                 /\ result' = RES_OK
                 /\ UNCHANGED threw
            ELSE /\ Catch(TRUE)
                 /\ UNCHANGED <<outExists, outFile>>
    /\ UNCHANGED <<imgVars, snsVars, callVars, decArgs, outDirExists, outFdOpen, page1,
                   pageBuf, pageNum, totalPages, encKey, macKey,
                   nDerive, nHmac, decryptedPages, macFailPages, pagesWritten,
                   progressLog>>

\* if (!this.validateKey(inputPath, hexKey)) { closeSync(fd); return }
DecValidate ==
    /\ pc = "validate"
    /\ \E f \in {"ok", "validate", "close"} :
         LET v == validateKey(inFile, hexKey, f = "validate") IN
         /\ nDerive' = nDerive + v.derived
         /\ nHmac' = nHmac + v.hmacs
         /\ IF v.valid
            THEN /\ f = "ok"
                 /\ ioLog' = ioLog \o <<"validate">>
                 /\ pc' = "prepare"
                 /\ UNCHANGED <<result, threw, fdOpen>>
            ELSE /\ ioLog' = ioLog \o <<"validate", "close">>
                 /\ IF f = "close"
                    THEN Catch(TRUE) /\ UNCHANGED fdOpen
                    ELSE /\ pc' = "done"
                         /\ result' = RES_KEY_INVALID
                         /\ fdOpen' = FALSE
                         /\ UNCHANGED threw
    /\ UNCHANGED <<imgVars, snsVars, callVars, decArgs, outDirExists, outExists, outFile, outFdOpen, page1,
                   pageBuf, pageNum, totalPages, encKey, macKey,
                   decryptedPages, macFailPages, pagesWritten, progressLog>>


\* deriveKeys, existsSync / mkdirSync of the output directory,
\* openSync(outputPath, 'w'), writeSync of the SQLite header, Buffer.alloc
DecPrepare ==
    /\ pc = "prepare"
    /\ \E f \in (IF outDirExists THEN {} ELSE {"mkdir"}) \cup {"ok", "openw", "write"} :
         /\ encKey' = deriveKeys(HexDecode(hexKey), BSlice(page1, 0, SALT_SIZE)).encKey
         /\ macKey' = deriveKeys(HexDecode(hexKey), BSlice(page1, 0, SALT_SIZE)).macKey
         /\ nDerive' = nDerive + 1
         /\ ioLog' = ioLog \o (IF outDirExists THEN <<>> ELSE <<"mkdir">>)
                           \o CASE f = "mkdir" -> <<>>
                                [] f = "openw" -> <<"openw">>
                                [] OTHER -> <<"openw", "write">>
         /\ outDirExists' = (outDirExists \/ f # "mkdir")
         /\ outFdOpen' = (f \in {"ok", "write"})
         /\ outExists' = (outExists \/ f \in {"ok", "write"})
         /\ outFile' = CASE f = "ok" -> SQLITE_HEADER
                         [] f = "write" -> <<>>
                         [] OTHER -> outFile
         /\ IF f = "ok"
            THEN /\ pageBuf' = Zeros(PAGE_SIZE)
                 /\ pageNum' = 0
                 /\ pc' = "loop"
                 /\ UNCHANGED <<result, threw>>
            ELSE /\ Catch(TRUE)
                 /\ UNCHANGED <<pageBuf, pageNum>>
    /\ UNCHANGED <<imgVars, snsVars, callVars, decArgs, fdOpen, page1, totalPages, nHmac, decryptedPages,
                   macFailPages, pagesWritten, progressLog>>

\* every pass reading the first page of the file
PagePositionFirst(n) == 0

\* the position the pass for page n reads from: "pageNum * PAGE_SIZE"
PagePosition(n) == n * PAGE_SIZE

\* one pass of "for (let pageNum = 0; pageNum < totalPages; pageNum++)"
DecPage ==
    /\ pc = "loop"
    /\ pageNum < totalPages
    /\ LET position == PagePosition(pageNum)
           bytesRead == BytesRead(inFile, position)
           buf == ReadInto(pageBuf, inFile, position)
           allZeros == AllZero(BSlice(buf, 0, bytesRead))
           page == decryptPage(buf, encKey, macKey, pageNum)
           reports == ~allZeros /\ pageNum % PROGRESS_EVERY = 0
       IN
       \E f \in (IF reports /\ onProgress THEN {"progress"} ELSE {})
                 \cup {"ok", "read", "write"} :
         LET decrypts == f # "read" /\ ~allZeros
             written == f \in {"ok", "progress"} /\ ~(decrypts /\ page.throws)
         IN
         /\ ioLog' = ioLog \o (IF f = "read" \/ (decrypts /\ page.throws)
                               THEN <<"read">> ELSE <<"read", "write">>)
         /\ pageBuf' = IF f = "read" THEN pageBuf ELSE buf
         /\ IF written
            THEN /\ outFile' = BConcat(outFile,
                        IF allZeros
                        THEN BSlice(buf, IF pageNum = 0 THEN SALT_SIZE ELSE 0, bytesRead)
                        ELSE page.result)
                 /\ pagesWritten' = pagesWritten + 1
            ELSE UNCHANGED <<outFile, pagesWritten>>
         /\ IF decrypts
            THEN /\ decryptedPages' = Append(decryptedPages, pageNum)
                 /\ nHmac' = nHmac + 1
                 /\ macFailPages' = IF page.macOk THEN macFailPages
                                    ELSE macFailPages \cup {pageNum}
            ELSE UNCHANGED <<decryptedPages, nHmac, macFailPages>>
         /\ progressLog' = IF reports /\ onProgress /\ written
                           THEN Append(progressLog, <<pageNum + 1, totalPages>>)
                           ELSE progressLog
         /\ IF f = "ok" /\ written
            THEN /\ pageNum' = pageNum + 1
                 /\ pc' = IF reports THEN "yield" ELSE "loop"
                 /\ UNCHANGED <<result, threw>>
            ELSE /\ Catch(f # "ok")
                 /\ UNCHANGED pageNum
    /\ UNCHANGED <<imgVars, snsVars, callVars, decArgs, outDirExists, outExists, fdOpen, outFdOpen, page1,
                   totalPages, encKey, macKey, nDerive>>

\* await new Promise(resolve => setImmediate(resolve)): the call resumes
DecResume ==
    /\ pc = "yield"
    /\ pc' = "loop"
    /\ UNCHANGED <<imgVars, snsVars, callVars, decArgs, outDirExists, outExists, outFile, result, fdOpen,
                   outFdOpen, page1, pageBuf, pageNum, totalPages, encKey, macKey,
                   ioLog, nDerive, nHmac, decryptedPages, macFailPages,
                   pagesWritten, progressLog, threw>>

\* after the loop: closeSync(fd), closeSync(outFd), onProgress(totalPages,
\* totalPages), return { success: true }
DecFinish ==
    /\ pc = "loop"
    /\ pageNum >= totalPages
    /\ \E f \in (IF onProgress THEN {"progress"} ELSE {}) \cup {"ok", "close", "closeOut"} :
         /\ ioLog' = ioLog \o (IF f = "close" THEN <<"close">> ELSE <<"close", "close">>)
         /\ fdOpen' = (f = "close")
         /\ outFdOpen' = (f \in {"close", "closeOut"})
         /\ progressLog' = IF onProgress /\ f \in {"ok", "progress"}
                           THEN Append(progressLog, <<totalPages, totalPages>>)
                           ELSE progressLog
         /\ IF f = "ok"
            THEN /\ pc' = "done"
                 /\ result' = RES_OK
                 /\ UNCHANGED threw
            ELSE Catch(TRUE)
    /\ UNCHANGED <<imgVars, snsVars, callVars, decArgs, outDirExists, outExists, outFile, page1, pageBuf,
                   pageNum, totalPages, encKey, macKey, nDerive, nHmac,
                   decryptedPages, macFailPages, pagesWritten>>

NextDec ==
    \/ DecCheckKey
    \/ DecOpenInput
    \/ DecCopy
    \/ DecValidate
    \/ DecPrepare
    \/ DecPage
    \/ DecResume
    \/ DecFinish

(***************************************************************************)
(* Two calls of decryptDatabase on one event loop                           *)
(***************************************************************************)
\* no second call
NoCall == [pc |-> "none"]
Solo == parked = NoCall /\ switches = 0

\* the arguments, the files and the locals of the running call
Current ==
    [hexKey |-> hexKey, onProgress |-> onProgress, inFile |-> inFile,
     outDirExists |-> outDirExists, outExists |-> outExists, outFile |-> outFile,
     priorOut |-> priorOut, pc |-> pc, result |-> result, fdOpen |-> fdOpen,
     outFdOpen |-> outFdOpen, page1 |-> page1, pageBuf |-> pageBuf, pageNum |-> pageNum,
     totalPages |-> totalPages, encKey |-> encKey, macKey |-> macKey, ioLog |-> ioLog,
     nDerive |-> nDerive, nHmac |-> nHmac, decryptedPages |-> decryptedPages,
     macFailPages |-> macFailPages, pagesWritten |-> pagesWritten,
     progressLog |-> progressLog, threw |-> threw]

\* a call that has not started: its arguments and its files
CallAt(key, progress, file, prior) ==
    [hexKey |-> key, onProgress |-> progress, inFile |-> file,
     outDirExists |-> TRUE, outExists |-> prior.exists, outFile |-> prior.data,
     priorOut |-> prior, pc |-> "call", result |-> "none", fdOpen |-> FALSE,
     outFdOpen |-> FALSE, page1 |-> <<>>, pageBuf |-> <<>>, pageNum |-> 0,
     totalPages |-> 0, encKey |-> 0, macKey |-> 0, ioLog |-> <<>>,
     nDerive |-> 0, nHmac |-> 0, decryptedPages |-> <<>>,
     macFailPages |-> {}, pagesWritten |-> 0,
     progressLog |-> <<>>, threw |-> FALSE]

\* a page buffer that belongs to the service, not to the call: the call that
\* resumes finds in it what the other call left
ResumeSharedPageBuf(saved, running) == [saved EXCEPT !.pageBuf = running.pageBuf]

\* what a call finds when it resumes: key, fd, page1, encKey, macKey, outFd,
\* pageBuf and pageNum are locals of the call, as it left them
Resume(saved, running) == saved

\* the running call awaits setImmediate or has returned, and the event loop
\* runs the other call: it starts it, or resumes it after its own await
DecSwitch ==
    /\ pc \in {"yield", "done"}
    /\ parked.pc \in {"call", "yield"}
    /\ LET r == Resume(parked, Current) IN
         /\ hexKey' = r.hexKey /\ onProgress' = r.onProgress /\ inFile' = r.inFile
         /\ outDirExists' = r.outDirExists /\ outExists' = r.outExists
         /\ outFile' = r.outFile /\ priorOut' = r.priorOut
         /\ pc' = IF r.pc = "yield" THEN "loop" ELSE r.pc
         /\ result' = r.result /\ fdOpen' = r.fdOpen /\ outFdOpen' = r.outFdOpen
         /\ page1' = r.page1 /\ pageBuf' = r.pageBuf /\ pageNum' = r.pageNum
         /\ totalPages' = r.totalPages /\ encKey' = r.encKey /\ macKey' = r.macKey
         /\ ioLog' = r.ioLog /\ nDerive' = r.nDerive /\ nHmac' = r.nHmac
         /\ decryptedPages' = r.decryptedPages /\ macFailPages' = r.macFailPages
         /\ pagesWritten' = r.pagesWritten /\ progressLog' = r.progressLog
         /\ threw' = r.threw
    /\ parked' = Current
    /\ switches' = switches + 1
    /\ UNCHANGED <<imgVars, snsVars>>

\* the input files of two calls: one with a short last page, one with a zero
\* page and a page whose HMAC is wrong, one already decrypted
TwoFiles == {EncDb(<<"good", "good">>, ShortPage),
             EncDb(<<"good", "zero", "bad">>, PAGE_SIZE),
             PlainDb(2)}
TwoKeys == {HexKeyGood, HexKeyOther}

\* two calls on different input files and different output paths
InitTwoCalls ==
    /\ InitDecWith(TwoKeys, TwoFiles)
    /\ parked \in {CallAt(k, TRUE, f, p) : k \in TwoKeys, f \in TwoFiles \ {inFile},
                                            p \in {q \in PriorOuts : ~q.exists}}
    /\ switches = 0

NextTwoCalls == NextDec \/ DecSwitch

(***************************************************************************)
(* Inputs of getImageKeys                                                   *)
(***************************************************************************)
\* bounds: the size of the smaller regions, and how far a candidate may start
\* from the start of the scanned region
SmallRegion == 40
MaxOffset == 112

\* a byte that is no letter and no digit: "."
Blank(n) == [i \in 1..n |-> 46]

\* key candidates of 32 letters: the key in use, a key that is not, and one
\* that shares the first 16 characters of the key in use
TrueCand == [i \in 1..CAND_CHARS |-> 97 + (i % 26)]
WrongCand == [i \in 1..CAND_CHARS |-> 65 + ((3 * i) % 26)]
TailCand == [i \in 1..CAND_CHARS |-> IF i <= AES_KEY_CHARS THEN TrueCand[i] ELSE 48 + (i % 10)]

\* the first block of a JPEG file, and the sample of a V2 template
JpegBlock == <<255, 216, 255, 224, 0, 16, 74, 70, 73, 70, 0, 1, 1, 0, 0, 1>>
Sample == AesEcbEncrypt(Subarray(TrueCand, 0, AES_KEY_CHARS), JpegBlock)

\* template files: their last two bytes are 0xFF ^ k and 0xD9 ^ k
TplTail(k) == <<Xor8(255, k), Xor8(217, k)>>
TplV2 == V2_SIGNATURE \o Blank(SAMPLE_START - Len(V2_SIGNATURE)) \o Sample \o TplTail(55)
TplV1 == Blank(SAMPLE_END) \o TplTail(55)
TplBadTail == Blank(SAMPLE_END) \o <<200, 0>>
TplTiny == <<5>>
TemplateLists == {<<>>, <<TplTiny>>, <<TplV1>>, <<TplV2>>, <<TplBadTail, TplV2>>,
                  <<TplV2, TplTiny, TplBadTail>>,
                  <<TplBadTail, TplV2, TplV1>>, <<TplBadTail, TplBadTail, TplV2>>}

\* n blank bytes with the 32 characters of cand at o+1 .. o+32 (0-based): an
\* ASCII candidate whose delimiters are the bytes o and o+33
PlaceAscii(n, o, cand) ==
    [i \in 1..n |-> IF i - 1 > o /\ i - 1 <= o + CAND_CHARS THEN cand[i - 1 - o] ELSE 46]

\* n blank bytes with cand as UTF-16LE in the 64 bytes from o on (0-based)
PlaceUtf16(n, o, cand) ==
    [i \in 1..n |-> IF i - 1 >= o /\ i - 1 < o + 2 * CAND_CHARS
                    THEN (IF (i - 1 - o) % 2 = 0 THEN cand[(i - 1 - o) \div 2 + 1] ELSE 0)
                    ELSE 46]

\* the memory map of the process: a free region, the region with data, a
\* guard page, a region too large to scan, and an image region
MemMap(data) ==
    LET MEM_FREE == 65536
        PAGE_READWRITE == 4
    IN
    <<[BaseAddress |-> 0, RegionSize |-> 64, State |-> MEM_FREE,
       Protect |-> PAGE_NOACCESS, Type |-> 0, Bytes |-> <<>>],
      [BaseAddress |-> 64, RegionSize |-> Len(data), State |-> MEM_COMMIT,
       Protect |-> PAGE_READWRITE, Type |-> MEM_PRIVATE, Bytes |-> data],
      [BaseAddress |-> 64 + Len(data), RegionSize |-> 16, State |-> MEM_COMMIT,
       Protect |-> PAGE_READWRITE + PAGE_GUARD, Type |-> MEM_PRIVATE, Bytes |-> <<>>],
      [BaseAddress |-> 80 + Len(data), RegionSize |-> MAX_REGION_SIZE + 1,
       State |-> MEM_COMMIT, Protect |-> PAGE_READWRITE, Type |-> MEM_MAPPED,
       Bytes |-> <<>>],
      [BaseAddress |-> 81 + Len(data) + MAX_REGION_SIZE, RegionSize |-> SmallRegion,
       State |-> MEM_COMMIT, Protect |-> PAGE_READWRITE, Type |-> MEM_IMAGE,
       Bytes |-> Blank(SmallRegion)]>>

\* the sizes of the data region: less than a chunk, a chunk and one or two
\* bytes, two chunks, two chunks and a few bytes
RegionSizes == {SmallRegion, chunkSize + 1, chunkSize + 2, 2 * chunkSize,
                2 * chunkSize + SmallRegion}

\* a few memory images: no candidate; the key inside a chunk, as ASCII and as
\* UTF-16; a key that is not in use; the key across the end of the first chunk
FewImages ==
    {Blank(2 * chunkSize),
     PlaceAscii(2 * chunkSize, 3, TrueCand),
     PlaceAscii(2 * chunkSize, 3, TailCand),
     PlaceUtf16(2 * chunkSize, 2, TrueCand),
     PlaceAscii(2 * chunkSize, 3, WrongCand),
     PlaceAscii(2 * chunkSize, chunkSize - 10, TrueCand),
     PlaceUtf16(chunkSize + SmallRegion, chunkSize - 30, TrueCand)}

\* every place of one candidate in a data region
AllImages ==
    UNION {{PlaceAscii(n, o, c) : o \in 0..Min(n - CAND_CHARS - 2, MaxOffset),
                                  c \in {TrueCand, WrongCand}}
           \cup {PlaceUtf16(n, o, c) : o \in 0..Min(n - 2 * CAND_CHARS, MaxOffset),
                                       c \in {TrueCand, WrongCand}}
           : n \in RegionSizes}

\* what ensureKernel32 sets after kernel32, in its order; the first n of them
Natives == <<"MEMORY_BASIC_INFORMATION", "OpenProcess", "CloseHandle",
             "VirtualQueryEx", "ReadProcessMemory">>
Bound(n) == {Natives[i] : i \in 1..n}
AllBound == Bound(Len(Natives))

\* the results of getImageKeys
ERR_NONE == "none"
ERR_NO_TEMPLATES == "error: no template files"
ERR_NO_XOR_KEY == "error: no XOR key"
ERR_NOT_FOUND == "error: no AES key found in memory"
ERR_EXCEPTION == "error: exception"

ImgIdle ==
    /\ templateFiles = <<>>
    /\ memMap = <<>>
    /\ resident = FALSE
    /\ kernel32 = "null"
    /\ bindings = {}
    /\ imgPc = "idle"
    /\ imgResult = [success |-> FALSE, xorKey |-> -1, aesKey |-> <<>>, error |-> ERR_NONE]
    /\ ciphertext = <<>>
    /\ attempt = 0
    /\ regions = <<>>
    /\ regionIdx = 0
    /\ offset = 0
    /\ trailing = <<>>
    /\ handles = 0
    /\ verifyLog = {}
    /\ scanFrom = -1
    /\ imgLog = <<>>

DecIdle ==
    /\ Solo
    /\ hexKey = <<>>
    /\ onProgress = FALSE
    /\ inFile = <<>>
    /\ outDirExists = FALSE
    /\ priorOut = [exists |-> FALSE, data |-> <<>>]
    /\ outExists = FALSE
    /\ outFile = <<>>
    /\ pc = "idle"
    /\ result = "none"
    /\ fdOpen = FALSE
    /\ outFdOpen = FALSE
    /\ page1 = <<>>
    /\ pageBuf = <<>>
    /\ pageNum = 0
    /\ totalPages = 0
    /\ encKey = 0
    /\ macKey = 0
    /\ ioLog = <<>>
    /\ nDerive = 0
    /\ nHmac = 0
    /\ decryptedPages = <<>>
    /\ macFailPages = {}
    /\ pagesWritten = 0
    /\ progressLog = <<>>
    /\ threw = FALSE

InitImgWith(templates, images, residents, kernels) ==
    /\ templateFiles \in templates
    /\ memMap \in {MemMap(d) : d \in images}
    /\ resident \in residents
    /\ kernel32 \in kernels
    /\ bindings = IF kernel32 = "loaded" THEN AllBound ELSE {}
    /\ imgPc = "call"
    /\ imgResult = [success |-> FALSE, xorKey |-> -1, aesKey |-> <<>>, error |-> ERR_NONE]
    /\ ciphertext = <<>>
    /\ attempt = 0
    /\ regions = <<>>
    /\ regionIdx = 0
    /\ offset = 0
    /\ trailing = <<>>
    /\ handles = 0
    /\ verifyLog = {}
    /\ scanFrom = -1
    /\ imgLog = <<>>

(***************************************************************************)
(* getImageKeys and getAesKeyFromMemory                                     *)
(***************************************************************************)
imgArgs == <<templateFiles, memMap>>

\* the bytes of region k as the process holds them now
MemBytes(k) == IF resident THEN memMap[k].Bytes ELSE Blank(Len(memMap[k].Bytes))

Return(success, xor, aes, error) ==
    /\ imgPc' = "done"
    /\ imgResult' = [success |-> success, xorKey |-> xor, aesKey |-> aes, error |-> error]

\* getImageKeys up to the retry loop: the template files, the XOR key and
\* the ciphertext sample
ImgBegin ==
    /\ imgPc = "call"
    /\ IF templateFiles = <<>>
       THEN Return(FALSE, -1, <<>>, ERR_NO_TEMPLATES) /\ UNCHANGED <<attempt, ciphertext>>
       ELSE IF getXorKey(templateFiles) = -1
       THEN Return(FALSE, -1, <<>>, ERR_NO_XOR_KEY) /\ UNCHANGED <<attempt, ciphertext>>
       ELSE IF getCiphertextFromTemplate(templateFiles) = <<>>
       THEN Return(TRUE, getXorKey(templateFiles), <<>>, ERR_NONE)
            /\ UNCHANGED <<attempt, ciphertext>>
       ELSE /\ ciphertext' = getCiphertextFromTemplate(templateFiles)
            /\ imgPc' = "attempt"
            /\ attempt' = 1
            /\ UNCHANGED imgResult
    /\ UNCHANGED <<decVars, snsVars, callVars, imgArgs, resident, kernel32, bindings, regions, regionIdx,
                   offset, trailing, handles, verifyLog, scanFrom, imgLog>>

\* one pass of the retry loop up to the scan: ensureKernel32, OpenProcess,
\* getMemoryRegions.  load: what koffi does when kernel32 is not loaded yet
\* ("ok", "loadFails": require or load throws, "bindFails": a declaration
\* throws after load, when the first n of Natives are set); open: whether
\* OpenProcess returns a handle.
ImgAttempt ==
    /\ imgPc = "attempt"
    /\ \E load \in {"ok", "loadFails", "bindFails"}, n \in 0..(Len(Natives) - 1),
          open \in BOOLEAN :
         /\ kernel32 = "loaded" => load = "ok"
         /\ load # "ok" => open
         /\ load # "bindFails" => n = 0
         /\ IF kernel32 = "null"
            THEN /\ kernel32' = IF load = "loadFails" THEN "null" ELSE "loaded"
                 /\ bindings' = CASE load = "ok" -> AllBound
                                  [] load = "bindFails" -> Bound(n)
                                  [] OTHER -> {}
            ELSE UNCHANGED <<kernel32, bindings>>
         /\ IF kernel32 = "null" /\ load # "ok"
            THEN \* ensureKernel32() is false: return null
                 /\ imgPc' = "retry"
                 /\ imgLog' = imgLog \o <<"attempt", "noKernel32">>
                 /\ UNCHANGED <<imgResult, regions, regionIdx, offset, trailing, handles,
                                verifyLog, scanFrom>>
            ELSE IF "OpenProcess" \notin bindings'
            THEN \* OpenProcess is null: the call throws, getImageKeys catches
                 /\ Return(FALSE, -1, <<>>, ERR_EXCEPTION)
                 /\ imgLog' = imgLog \o <<"attempt", "throw">>
                 /\ UNCHANGED <<regions, regionIdx, offset, trailing, handles,
                                verifyLog, scanFrom>>
            ELSE IF ~open
            THEN \* if (!hProcess) return null
                 /\ imgPc' = "retry"
                 /\ imgLog' = imgLog \o <<"attempt", "openFailed">>
                 /\ UNCHANGED <<imgResult, regions, regionIdx, offset, trailing, handles,
                                verifyLog, scanFrom>>
            ELSE IF "VirtualQueryEx" \notin bindings'
            THEN \* getMemoryRegions calls null and throws; finally calls
                 \* CloseHandle, which throws in its own try when it is null
                 /\ Return(FALSE, -1, <<>>, ERR_EXCEPTION)
                 /\ handles' = IF "CloseHandle" \in bindings' THEN handles ELSE handles + 1
                 /\ imgLog' = imgLog \o <<"attempt", "open">>
                                     \o (IF "CloseHandle" \in bindings'
                                         THEN <<"close">> ELSE <<>>)
                                     \o <<"throw">>
                 /\ UNCHANGED <<regions, regionIdx, offset, trailing, verifyLog, scanFrom>>
            ELSE /\ imgPc' = "scan"
                 /\ imgLog' = imgLog \o <<"attempt", "open">>
                 /\ handles' = handles + 1
                 /\ regions' = getMemoryRegions(memMap, 0)
                 /\ regionIdx' = 1
                 /\ offset' = 0
                 /\ trailing' = <<>>
                 /\ verifyLog' = {}
                 /\ scanFrom' = -1
                 /\ UNCHANGED imgResult
    /\ UNCHANGED <<decVars, snsVars, callVars, imgArgs, resident, ciphertext, attempt>>

\* "for (const [baseAddress, regionSize] of regions)": a region larger than
\* 100 MB is skipped, a region scanned to its end is left
ImgNextRegion ==
    /\ imgPc = "scan"
    /\ regionIdx <= Len(regions)
    /\ LET size == memMap[regions[regionIdx]].RegionSize
       IN  size > MAX_REGION_SIZE \/ offset >= size
    /\ regionIdx' = regionIdx + 1
    /\ offset' = 0
    /\ trailing' = <<>>
    /\ scanFrom' = -1
    /\ UNCHANGED <<decVars, snsVars, callVars, imgArgs, resident, kernel32, bindings, imgPc, imgResult,
                   ciphertext, attempt, regions, handles, verifyLog, imgLog>>

\* one pass of "while (offset < regionSize)": read a chunk, scan it with the
\* tail of the last one.  read: "ok", "fails" (readProcessMemory returns
\* null) or "throws" (the native call throws, as it does when
\* ReadProcessMemory is null: finally closes the handle and getImageKeys
\* catches).
ImgScanChunk ==
    /\ imgPc = "scan"
    /\ regionIdx <= Len(regions)
    /\ LET k == regions[regionIdx]
           regionSize == memMap[k].RegionSize
           remaining == regionSize - offset
           currentChunkSize == IF remaining > chunkSize THEN chunkSize ELSE remaining
           chunk == Subarray(MemBytes(k), offset, offset + currentChunkSize)
           dataToScan == trailing \o chunk
           scan == ScanData(dataToScan, ciphertext)
       IN
       /\ regionSize <= MAX_REGION_SIZE
       /\ offset < regionSize
       /\ \E read \in (IF "ReadProcessMemory" \in bindings THEN {"ok", "fails"} ELSE {})
                       \cup {"throws"} :
            CASE read = "fails" ->
                   /\ offset' = offset + currentChunkSize
                   /\ trailing' = <<>>
                   /\ scanFrom' = -1
                   /\ UNCHANGED <<imgPc, imgResult, handles, verifyLog, imgLog>>
              [] read = "throws" ->
                   /\ Return(FALSE, -1, <<>>, ERR_EXCEPTION)
                   /\ handles' = handles - 1
                   /\ imgLog' = imgLog \o <<"close", "throw">>
                   /\ UNCHANGED <<offset, trailing, verifyLog, scanFrom>>
              [] read = "ok" ->
                   /\ scanFrom' = IF scanFrom = -1 THEN offset ELSE scanFrom
                   /\ verifyLog' = verifyLog \cup {scan.tried[i] : i \in DOMAIN scan.tried}
                   /\ IF scan.key # <<>>
                      THEN /\ Return(TRUE, getXorKey(templateFiles),
                                     SubSeq(scan.key, 1, Min(AES_KEY_CHARS, Len(scan.key))),
                                     ERR_NONE)
                           /\ handles' = handles - 1
                           /\ imgLog' = imgLog \o <<"close", "found">>
                           /\ UNCHANGED <<offset, trailing>>
                      ELSE /\ trailing' = Trailing(dataToScan)
                           /\ offset' = offset + currentChunkSize
                           /\ UNCHANGED <<imgPc, imgResult, handles, imgLog>>
    /\ UNCHANGED <<decVars, snsVars, callVars, imgArgs, resident, kernel32, bindings, ciphertext, attempt,
                   regions, regionIdx>>

\* after the last region: return null; finally CloseHandle(hProcess)
ImgScanEnd ==
    /\ imgPc = "scan"
    /\ regionIdx > Len(regions)
    /\ imgPc' = "retry"
    /\ handles' = handles - 1
    /\ imgLog' = imgLog \o <<"close">>
    /\ UNCHANGED <<decVars, snsVars, callVars, imgArgs, resident, kernel32, bindings, imgResult, ciphertext,
                   attempt, regions, regionIdx, offset, trailing, verifyLog,
                   scanFrom>>

\* aesKey is null: "if (attempt < maxRetries) await setTimeout(2000)", or the
\* end of the loop and the failure after it
ImgRetry ==
    /\ imgPc = "retry"
    /\ IF attempt < maxRetries
       THEN /\ imgPc' = "delay"
            /\ imgLog' = Append(imgLog, "delay")
            /\ UNCHANGED imgResult
       ELSE /\ Return(FALSE, -1, <<>>, ERR_NOT_FOUND)
            /\ imgLog' = Append(imgLog, "notFound")
    /\ UNCHANGED <<decVars, snsVars, callVars, imgArgs, resident, kernel32, bindings, ciphertext, attempt,
                   regions, regionIdx, offset, trailing, handles, verifyLog, scanFrom>>

\* the 2 seconds pass, in which the user may have opened an image: attempt++
ImgDelay ==
    /\ imgPc = "delay"
    /\ imgPc' = "attempt"
    /\ attempt' = attempt + 1
    /\ resident' \in {resident, TRUE}
    /\ UNCHANGED <<decVars, snsVars, callVars, imgArgs, kernel32, bindings, imgResult, ciphertext,
                   regions, regionIdx, offset, trailing, handles, verifyLog, scanFrom,
                   imgLog>>

NextImg ==
    \/ ImgBegin
    \/ ImgAttempt
    \/ ImgNextRegion
    \/ ImgScanChunk
    \/ ImgScanEnd
    \/ ImgRetry
    \/ ImgDelay

(***************************************************************************)
(* SnsService (electron/services/snsService.ts): keystream decryption of    *)
(* downloaded media.  Isaac64 (electron/services/isaac64.ts) and            *)
(* WasmService.getKeystream are not among the sources: they are taken from  *)
(* the specification's section on the keystream generator.                  *)
(***************************************************************************)
\* "Math.ceil(raw.length / 8) * 8"
KS_ALIGN == 8
\* the bytes of one 64-bit word of the generator
WORD_BYTES == 8

\* the prefix of a video that is decrypted: 131072 in the program, scaled
\* down so that payloads on both sides of it can be enumerated
MaxPrefix == 16
videoPrefixLen == MaxPrefix

\* bound: the length of a payload
MaxPayload == 18

\* no key argument (undefined)
NoKey == <<"undefined">>

\* String(key).trim()
RECURSIVE TrimLeft(_)
TrimLeft(str) == IF str # <<>> /\ Head(str) = " " THEN TrimLeft(Tail(str)) ELSE str
ReverseSeq(q) == [i \in 1..Len(q) |-> q[Len(q) + 1 - i]]
Trim(str) == ReverseSeq(TrimLeft(ReverseSeq(TrimLeft(str))))

\* /^\d+$/.test(keyStr)
IsDigits(str) ==
    /\ str # <<>>
    /\ \A i \in DOMAIN str : str[i] \in {"0", "1", "2", "3", "4", "5", "6", "7", "8", "9"}

\* the seed new Isaac64(key) takes from the key string
Seed(str) ==
    LET code(c) == IF IsHex(c) THEN HexVal(c) + 1 ELSE 29
    IN  SumSeq([i \in DOMAIN str |-> i * code(str[i])])

\* isaac.generateKeystreamBE(n): the first n bytes of the generator's words,
\* each word serialized big-endian; byte j is byte j % 8 of word j \div 8
generateKeystreamBE(str, n) ==
    [j \in 1..n |->
        LET w == (j - 1) \div WORD_BYTES
            b == (j - 1) % WORD_BYTES
        IN  (Seed(str) * 37 + w * 101 + b * 13 + w * b * 7 + 5) % 256]

\* the size the fallback asks of the generator, without the alignment
alignSizeNone(length) == length

\* "const alignSize = Math.ceil(raw.length / 8) * 8"
alignSize(length) == ((length + KS_ALIGN - 1) \div KS_ALIGN) * KS_ALIGN

\* the fallback of both paths: align, generate, reverse the whole buffer, take
\* the first length bytes
fallbackKeystream(str, length) ==
    Subarray(ReverseSeq(generateKeystreamBE(str, alignSize(length))), 0, length)

\* WasmService.getKeystream(key, length): the generator output padded to its
\* alignment, reversed as a whole, cut to length
wasmGetKeystream(str, length) ==
    LET padded == generateKeystreamBE(str, alignSize(length))
    IN  [i \in 1..length |-> padded[Len(padded) + 1 - i]]

\* "try { keystream = await wasmService.getKeystream(...) } catch { ... }"
getKeystream(wasm, str, length) ==
    IF wasm THEN wasmGetKeystream(str, length) ELSE fallbackKeystream(str, length)

\* a keystream as long as the video
videoKeystreamLenWhole(raw) == Len(raw)

\* "getKeystream(keyText, 131072)": the length of the keystream of a video
videoKeystreamLen(raw) == videoPrefixLen

\* "const decryptLen = Math.min(keystream.length, raw.length)"
videoDecryptLen(keystream, raw) == Min(Len(keystream), Len(raw))

\* "for (i < n) raw[i] ^= keystream[i]"
XorPrefix(raw, keystream, n) ==
    [i \in 1..Len(raw) |->
        IF i <= n /\ i <= Len(keystream) THEN Xor8(raw[i], keystream[i]) ELSE raw[i]]

\* "(xEnc === '1' || !!key) && key !== undefined && key !== null &&
\*  String(key).trim().length > 0"
shouldDecrypt(xEnc, key) ==
    /\ xEnc \/ (key # NoKey /\ key # <<>>)
    /\ key # NoKey
    /\ Trim(key) # <<>>

\* keys: digits, digits between blanks, a key that is not a number, blanks,
\* the empty string, no key
MediaKeys == {<<"1", "2">>, <<" ", "7", " ">>, <<"a", "1">>, <<" ">>, <<>>, NoKey}

\* a payload of n bytes
Payload(n) == [i \in 1..n |-> (i * 29 + 3) % 256]

\* payload lengths around the alignment and around the video prefix
PayloadLens == {0, 1, KS_ALIGN - 1, KS_ALIGN, KS_ALIGN + 1,
                MaxPrefix - 1, MaxPrefix, MaxPrefix + 1, MaxPayload}

MediaInputs ==
    /\ mKind' \in {"video", "image"}
    /\ mKey' \in MediaKeys
    /\ mXEnc' \in BOOLEAN
    /\ mRaw' \in {Payload(n) : n \in PayloadLens}
    /\ mWasm' \in BOOLEAN

MediaIdle ==
    /\ mKind = "none"
    /\ mKey = NoKey
    /\ mXEnc = FALSE
    /\ mRaw = <<>>
    /\ mWasm = FALSE
    /\ mPc = "idle"
    /\ mOut = <<>>
    /\ ksLog = {}

\* fetchAndDecryptImage is called and the payload arrives
MediaFetch ==
    /\ mPc = "idle"
    /\ MediaInputs
    /\ mPc' = "fetched"
    /\ UNCHANGED <<decVars, imgVars, callVars, envVars, mOut, ksLog>>

\* the 'finish' handler of the video download
DecryptVideo ==
    /\ mPc = "fetched" /\ mKind = "video"
    /\ IF mKey # NoKey /\ Trim(mKey) # <<>>
       THEN LET keystream == getKeystream(mWasm, Trim(mKey), videoKeystreamLen(mRaw))
                decryptLen == videoDecryptLen(keystream, mRaw)
            IN  /\ mOut' = XorPrefix(mRaw, keystream, decryptLen)
                /\ ksLog' = ksLog \cup {[key |-> Trim(mKey), length |-> Len(keystream),
                                         stream |-> keystream]}
       ELSE /\ mOut' = mRaw
            /\ UNCHANGED ksLog
    /\ mPc' = "done"
    /\ UNCHANGED <<decVars, imgVars, callVars, envVars, mKind, mKey, mXEnc, mRaw, mWasm>>

\* the 'end' handler of the image download
DecryptImage ==
    /\ mPc = "fetched" /\ mKind = "image"
    /\ IF shouldDecrypt(mXEnc, mKey) /\ IsDigits(Trim(mKey))
       THEN LET keystream == getKeystream(mWasm, Trim(mKey), Len(mRaw))
            IN  /\ mOut' = XorPrefix(mRaw, keystream, Len(mRaw))
                /\ ksLog' = ksLog \cup {[key |-> Trim(mKey), length |-> Len(mRaw),
                                         stream |-> keystream]}
       ELSE /\ mOut' = mRaw
            /\ UNCHANGED ksLog
    /\ mPc' = "done"
    /\ UNCHANGED <<decVars, imgVars, callVars, envVars, mKind, mKey, mXEnc, mRaw, mWasm>>

NextMedia ==
    \/ MediaFetch
    \/ DecryptVideo
    \/ DecryptImage


(***************************************************************************)
(* SnsService.decryptEmojiAes: the envelope search                          *)
(***************************************************************************)
\* the sizes of the GCM tag and nonce, and of an AES-128 / AES-256 key
TAG_LEN == 16
NONCE_TAG_LEN == 28
KEY16 == 16
KEY32 == 32
\* buildKeyTries: "hexStr.length >= 32", "hexStr.slice(0, 32)"
HEX_KEY_CHARS == 32
\* buildGcmLayouts, format A: the payload starts at offset 63
GCM_BLOCK_HEAD == 63
\* the nonce of format A: "encData.subarray(19, 31)"; the size of a nonce
GCM_BLOCK_NONCE == 19
NONCE_LEN == 12
\* isValidImageBuffer: "buf.length < 12"
MIN_IMAGE_LEN == 12
\* "encData.length > 32": the second CBC variant
CBC_HEAD_MIN == 32

\* aesKey.replace(/\s/g, '')
StripWs(str) == SelectSeq(str, LAMBDA c : c # " ")

\* /^[0-9a-fA-F]+$/.test(hexStr)
IsHexStr(str) ==
    /\ str # <<>>
    /\ \A i \in DOMAIN str : IsHex(str[i]) \/ str[i] \in {"A", "B", "C", "D", "E", "F"}

\* the characters Buffer.from(aesKey, 'base64') decodes
IsBase64Char(c) ==
    \/ IsHex(c)
    \/ c \in {"A", "B", "C", "D", "E", "F", "k", "Q", "z", "+", "/"}

\* Buffer.from(aesKey, 'base64').length: 3 bytes for 4 characters
Base64Len(str) == (Len(SelectSeq(str, IsBase64Char)) * 3) \div 4

\* buildKeyTries(aesKey): the name and the length of each derived key
buildKeyTries(str) ==
    LET hexStr == StripWs(str)
    IN  (IF Len(hexStr) >= HEX_KEY_CHARS /\ IsHexStr(hexStr)
         THEN <<[name |-> "hex-decode", len |-> KEY16],
                [name |-> "raw-hex-str-32", len |-> KEY32]>>
         ELSE <<>>)
        \o (IF Len(str) >= KEY16 THEN <<[name |-> "utf8-16", len |-> KEY16]>> ELSE <<>>)
        \o <<[name |-> "md5", len |-> KEY16]>>
        \o (IF Base64Len(str) >= KEY16 THEN <<[name |-> "base64", len |-> KEY16]>> ELSE <<>>)

\* buildGcmLayouts pushing "nonce-head" under the test of "zero-nonce"
buildGcmLayoutsLoose(enc) ==
    (IF enc.len > GCM_BLOCK_HEAD /\ enc.b0 = 171 /\ enc.b8 = 171 /\ enc.b9 = 0
        /\ enc.payloadSize > TAG_LEN /\ GCM_BLOCK_HEAD + enc.payloadSize <= enc.len
     THEN <<"gcmdata-block">> ELSE <<>>)
    \o (IF enc.len > NONCE_TAG_LEN THEN <<"nonce-tail">> ELSE <<>>)
    \o (IF enc.len > TAG_LEN THEN <<"nonce-head">> ELSE <<>>)
    \o (IF enc.len > TAG_LEN THEN <<"zero-nonce">> ELSE <<>>)
    \o (IF enc.len > NONCE_TAG_LEN THEN <<"nonce-tag-head">> ELSE <<>>)

\* buildGcmLayouts(encData): the names of the layouts, in order
buildGcmLayouts(enc) ==
    (IF enc.len > GCM_BLOCK_HEAD /\ enc.b0 = 171 /\ enc.b8 = 171 /\ enc.b9 = 0
        /\ enc.payloadSize > TAG_LEN /\ GCM_BLOCK_HEAD + enc.payloadSize <= enc.len
     THEN <<"gcmdata-block">> ELSE <<>>)
    \o (IF enc.len > NONCE_TAG_LEN THEN <<"nonce-tail">> ELSE <<>>)
    \o (IF enc.len > NONCE_TAG_LEN THEN <<"nonce-head">> ELSE <<>>)
    \o (IF enc.len > TAG_LEN THEN <<"zero-nonce">> ELSE <<>>)
    \o (IF enc.len > NONCE_TAG_LEN THEN <<"nonce-tag-head">> ELSE <<>>)

\* buf.subarray(start, end) of a buffer holding the bytes [from, to) of src:
\* a negative index counts from the end, both are clamped, no bytes when
\* end is before start
SubRange(buf, start, end) ==
    LET n == buf.to - buf.from
        rel(x) == IF x < 0 THEN Max(n + x, 0) ELSE Min(x, n)
    IN  [src |-> buf.src, from |-> buf.from + rel(start),
         to |-> buf.from + Max(rel(start), rel(end))]
Whole(src, n) == [src |-> src, from |-> 0, to |-> n]

\* the nonce, the ciphertext and the tag a GCM trial of the layout gives to
\* tryGcmDecrypt, as ranges of encData, of the key or of Buffer.alloc(12, 0)
GcmSplit(layout, enc, keyLen) ==
    LET e == Whole("encData", enc.len)
        n == enc.len
        payload == SubRange(e, GCM_BLOCK_HEAD, GCM_BLOCK_HEAD + enc.payloadSize)
        plen == payload.to - payload.from
    IN  CASE layout \in {"nonce-tail-first", "nonce-tail"} ->
               [nonce |-> SubRange(e, n - NONCE_TAG_LEN, n - TAG_LEN),
                ciphertext |-> SubRange(e, 0, n - NONCE_TAG_LEN),
                tag |-> SubRange(e, n - TAG_LEN, n)]
          [] layout = "key-nonce" ->
               [nonce |-> SubRange(Whole("key", keyLen), 0, NONCE_LEN),
                ciphertext |-> SubRange(e, 0, n - TAG_LEN),
                tag |-> SubRange(e, n - TAG_LEN, n)]
          [] layout = "gcmdata-block" ->
               [nonce |-> SubRange(e, GCM_BLOCK_NONCE, GCM_BLOCK_NONCE + NONCE_LEN),
                ciphertext |-> SubRange(payload, 0, plen - TAG_LEN),
                tag |-> SubRange(payload, plen - TAG_LEN, plen)]
          [] layout = "nonce-head" ->
               [nonce |-> SubRange(e, 0, NONCE_LEN),
                ciphertext |-> SubRange(e, NONCE_LEN, n - TAG_LEN),
                tag |-> SubRange(e, n - TAG_LEN, n)]
          [] layout = "zero-nonce" ->
               [nonce |-> Whole("zeros", NONCE_LEN),
                ciphertext |-> SubRange(e, 0, n - TAG_LEN),
                tag |-> SubRange(e, n - TAG_LEN, n)]
          [] layout = "nonce-tag-head" ->
               [nonce |-> SubRange(e, 0, NONCE_LEN),
                ciphertext |-> SubRange(e, NONCE_TAG_LEN, n),
                tag |-> SubRange(e, NONCE_LEN, NONCE_TAG_LEN)]

\* the keys the GCM loops use: "if (key.length !== 16 && key.length !== 32) continue"
GcmKeys(keyTries) == SelectSeq(keyTries, LAMBDA k : k.len = KEY16 \/ k.len = KEY32)

\* the fallback loop trying every derived key
FallbackKeysAll(keyTries) == keyTries

\* the keys the fallback loop uses: "if (key.length !== 16) continue"
FallbackKeys(keyTries) == SelectSeq(keyTries, LAMBDA k : k.len = KEY16)

Trial(family, layout, k) == [family |-> family, layout |-> layout, key |-> k.name, keyLen |-> k.len]

\* the GCM trials with the layout of nonce = key.subarray(0, 12) first
GcmTrialsKeyNonceFirst(enc, keyTries) ==
    LET keys == GcmKeys(keyTries)
        over(layout) == [i \in DOMAIN keys |-> Trial("gcm", layout, keys[i])]
        layouts == buildGcmLayouts(enc)
    IN  over("key-nonce")
        \o (IF enc.len > NONCE_TAG_LEN THEN over("nonce-tail-first") ELSE <<>>)
        \o Flatten([l \in DOMAIN layouts |-> over(layouts[l])])

\* the GCM trials of decryptEmojiAes in the order of its three loops
GcmTrials(enc, keyTries) ==
    LET keys == GcmKeys(keyTries)
        over(layout) == [i \in DOMAIN keys |-> Trial("gcm", layout, keys[i])]
        layouts == buildGcmLayouts(enc)
    IN  (IF enc.len > NONCE_TAG_LEN THEN over("nonce-tail-first") ELSE <<>>)
        \o over("key-nonce")
        \o Flatten([l \in DOMAIN layouts |-> over(layouts[l])])

\* the fallback trials: for each 16-byte key CBC with IV = key, CBC with the
\* first 16 bytes as IV, ECB
FallbackTrials(enc, keyTries) ==
    LET keys == FallbackKeys(keyTries)
    IN  Flatten([i \in DOMAIN keys |->
           (IF enc.len >= KEY16 /\ enc.len % KEY16 = 0
            THEN <<Trial("cbc", "iv-key", keys[i])>> ELSE <<>>)
           \o (IF enc.len > CBC_HEAD_MIN THEN <<Trial("cbc", "iv-head", keys[i])>> ELSE <<>>)
           \o <<Trial("ecb", "whole", keys[i])>>])

\* the trials followed by a GCM trial for every place of the nonce
TrialOrderSliding(enc, keyTries) ==
    GcmTrials(enc, keyTries) \o FallbackTrials(enc, keyTries)
    \o [o \in 1..enc.len |-> Trial("gcm", "nonce-at-offset", keyTries[1])]

\* every trial of one call, in order
TrialOrder(enc, keyTries) == GcmTrials(enc, keyTries) \o FallbackTrials(enc, keyTries)

\* the magic bytes isValidImageBuffer looks for
MAGIC_GIF == <<71, 73, 70>>
MAGIC_PNG == <<137, 80, 78, 71>>
MAGIC_JPEG == <<255, 216, 255>>
MAGIC_RIFF == <<82, 73, 70, 70>>
MAGIC_WEBP == <<87, 69, 66, 80>>

StartsWith(buf, magic) == Len(buf) >= Len(magic) /\ SubSeq(buf, 1, Len(magic)) = magic

\* isValidImageBuffer without the test of the length
isValidImageBufferNoLength(buf) ==
    \/ StartsWith(buf, MAGIC_GIF)
    \/ StartsWith(buf, MAGIC_PNG)
    \/ StartsWith(buf, MAGIC_JPEG)
    \/ StartsWith(buf, MAGIC_RIFF) /\ Len(buf) >= 12 /\ SubSeq(buf, 9, 12) = MAGIC_WEBP

\* isValidImageBuffer(buf)
isValidImageBuffer(buf) ==
    /\ Len(buf) >= MIN_IMAGE_LEN
    /\ \/ StartsWith(buf, MAGIC_GIF)
       \/ StartsWith(buf, MAGIC_PNG)
       \/ StartsWith(buf, MAGIC_JPEG)
       \/ StartsWith(buf, MAGIC_RIFF) /\ SubSeq(buf, 9, 12) = MAGIC_WEBP

\* zlib streams: a deflate stream starts 78 9C, a gzip stream 1F 8B
Deflated(buf) == <<120, 156>> \o buf
Gzipped(buf) == <<31, 139>> \o buf

\* zlib.inflateSync, zlib.gunzipSync, zlib.unzipSync: [throws, data]
inflateSync(buf) ==
    IF StartsWith(buf, <<120, 156>>) THEN [throws |-> FALSE, data |-> SubSeq(buf, 3, Len(buf))]
    ELSE [throws |-> TRUE, data |-> <<>>]
gunzipSync(buf) ==
    IF StartsWith(buf, <<31, 139>>) THEN [throws |-> FALSE, data |-> SubSeq(buf, 3, Len(buf))]
    ELSE [throws |-> TRUE, data |-> <<>>]
unzipSync(buf) == IF inflateSync(buf).throws THEN gunzipSync(buf) ELSE inflateSync(buf)

\* the first of the decompressions of buf that is a valid image (<<>>: none)
FirstImage(unzipped) ==
    LET ok == {i \in DOMAIN unzipped :
                   ~unzipped[i].throws /\ isValidImageBuffer(unzipped[i].data)}
    IN  IF ok = {} THEN <<>> ELSE unzipped[CHOOSE i \in ok : \A j \in ok : i <= j].data

NullResult == [isNull |-> TRUE, data |-> <<>>]
BufferResult(buf) == [isNull |-> FALSE, data |-> buf]

\* tryGcmDecrypt, given what the decipher does: it throws when the tag does
\* not verify, and it gives the plaintext when it does
tryGcmDecrypt(dec) ==
    IF dec.throws THEN NullResult
    ELSE IF isValidImageBuffer(dec.data) THEN BufferResult(dec.data)
    ELSE LET d == FirstImage(<<inflateSync(dec.data), gunzipSync(dec.data),
                               unzipSync(dec.data)>>)
         IN  IF d # <<>> THEN BufferResult(d) ELSE BufferResult(dec.data)

\* a CBC trial: the decipher throws on bad padding
tryCbc(dec) ==
    IF dec.throws THEN NullResult
    ELSE IF isValidImageBuffer(dec.data) THEN BufferResult(dec.data)
    ELSE LET d == FirstImage(<<inflateSync(dec.data), gunzipSync(dec.data)>>)
         IN  IF d # <<>> THEN BufferResult(d) ELSE NullResult

\* the ECB trial
tryEcb(dec) ==
    IF dec.throws THEN NullResult
    ELSE IF isValidImageBuffer(dec.data) THEN BufferResult(dec.data)
    ELSE NullResult

\* what a trial returns, given what its decipher does
TrialResult(t, dec) ==
    CASE t.family = "gcm" -> tryGcmDecrypt(dec)
      [] t.family = "cbc" -> tryCbc(dec)
      [] t.family = "ecb" -> tryEcb(dec)

\* plaintexts: images, near-images, other bytes, compressed ones
Gif89 == <<71, 73, 70, 56, 57, 97, 1, 0, 1, 0, 0, 0>>
GifOdd == <<71, 73, 70, 1, 2, 3, 4, 5, 6, 7, 8, 9>>
GifShort == <<71, 73, 70, 56, 57, 97>>
PngFull == <<137, 80, 78, 71, 13, 10, 26, 10, 0, 0, 0, 13>>
PngOdd == <<137, 80, 78, 71, 1, 2, 3, 4, 5, 6, 7, 8>>
Jpeg == <<255, 216, 255, 224, 0, 16, 74, 70, 73, 70, 0, 1>>
Webp == <<82, 73, 70, 70, 4, 0, 0, 0, 87, 69, 66, 80>>
Wave == <<82, 73, 70, 70, 4, 0, 0, 0, 87, 65, 86, 69>>
OtherBytes == <<9, 8, 7, 6, 5, 4, 3, 2, 1, 2, 3, 4>>
Plains == {Gif89, GifOdd, GifShort, PngFull, PngOdd, Jpeg, Webp, Wave, OtherBytes,
           Deflated(Gif89), Gzipped(Jpeg), Deflated(OtherBytes), <<>>}

\* what a decipher does: it throws (the tag does not verify, the padding is
\* wrong), or it gives a plaintext
Deciphered == {[throws |-> TRUE, data |-> <<>>]} \cup {[throws |-> FALSE, data |-> p] : p \in Plains}

\* envelopes: their length and the bytes buildGcmLayouts reads
Envelope(len, b0, payloadSize) ==
    [len |-> len, b0 |-> b0, b8 |-> 171, b9 |-> 0, payloadSize |-> payloadSize]
EncDatas ==
    {Envelope(n, 0, 0) : n \in {10, 16, 17, 28, 29, 32, 33, 48, 64}}
    \cup {Envelope(80, 171, n) : n \in {16, 17, 18}}
    \cup {[Envelope(80, 171, 17) EXCEPT !.b8 = 0], [Envelope(80, 171, 17) EXCEPT !.b9 = 1]}

\* aesKey: 32 hex digits, hex digits with blanks, 16 and 24 characters that
\* are no hex digits, a short key
AesKeys == {Rep("3", 32),
            [i \in 1..40 |-> IF i % 5 = 0 THEN " " ELSE "c"],
            Rep("z", 16), Rep("Q", 24), <<"a", "b", "c">>}

EnvIdle ==
    /\ encData = Envelope(0, 0, 0)
    /\ aesKey = <<>>
    /\ envPc = "idle"
    /\ envTrials = <<>>
    /\ envIdx = 0
    /\ envLast = [throws |-> TRUE, data |-> <<>>]
    /\ envOutcomes = <<>>
    /\ envResult = NullResult

SnsIdle == MediaIdle /\ EnvIdle

InitEnvWith ==
    /\ encData \in EncDatas
    /\ aesKey \in AesKeys
    /\ envPc = "call"
    /\ envTrials = <<>>
    /\ envIdx = 0
    /\ envLast = [throws |-> TRUE, data |-> <<>>]
    /\ envOutcomes = <<>>
    /\ envResult = NullResult

envArgs == <<encData, aesKey>>

\* decryptEmojiAes up to its loops: the test of the length, buildKeyTries
EnvCall ==
    /\ envPc = "call"
    /\ IF encData.len <= TAG_LEN
       THEN /\ envPc' = "done"
            /\ envResult' = NullResult
            /\ UNCHANGED envTrials
       ELSE /\ envPc' = "search"
            /\ envTrials' = TrialOrder(encData, buildKeyTries(aesKey))
            /\ UNCHANGED envResult
    /\ UNCHANGED <<decVars, imgVars, callVars, mediaVars, envArgs, envIdx, envLast, envOutcomes>>

\* one trial of the loops: "if (result) return result"
EnvTrial ==
    /\ envPc = "search"
    /\ envIdx < Len(envTrials)
    /\ \E dec \in Deciphered :
          LET r == TrialResult(envTrials[envIdx + 1], dec)
          IN  /\ envLast' = dec
              /\ envOutcomes' = Append(envOutcomes, ~r.isNull)
              /\ envIdx' = envIdx + 1
              /\ IF r.isNull
                 THEN UNCHANGED <<envPc, envResult>>
                 ELSE envPc' = "done" /\ envResult' = r
    /\ UNCHANGED <<decVars, imgVars, callVars, mediaVars, envArgs, envTrials>>

\* "return null" after the last loop
EnvNotFound ==
    /\ envPc = "search"
    /\ envIdx = Len(envTrials)
    /\ envPc' = "done"
    /\ envResult' = NullResult
    /\ UNCHANGED <<decVars, imgVars, callVars, mediaVars, envArgs, envTrials, envIdx, envLast, envOutcomes>>

NextEnv ==
    \/ EnvCall
    \/ EnvTrial
    \/ EnvNotFound

(***************************************************************************)
(* Specifications                                                           *)
(***************************************************************************)
\* one call of decryptDatabase
Init == InitDec /\ ImgIdle /\ SnsIdle /\ Solo
Next == NextDec
Spec == Init /\ [][Next]_vars

\* one call of decryptDatabase on a long file
InitLong == InitDecWith({HexKeyGood}, LongFiles) /\ ImgIdle /\ SnsIdle /\ Solo

\* two calls of decryptDatabase, interleaved where they yield
InitTwo == InitTwoCalls /\ ImgIdle /\ SnsIdle
SpecTwo == InitTwo /\ [][NextTwoCalls]_vars
SpecLong == InitLong /\ [][NextDec]_vars

\* one call of getImageKeys, over a few memory images
InitImg ==
    DecIdle /\ InitImgWith(TemplateLists, FewImages, BOOLEAN, {"null", "loaded"}) /\ SnsIdle
SpecImg == InitImg /\ [][NextImg]_vars

\* one call of getImageKeys with a sample, over every place of a candidate
InitScan == DecIdle /\ InitImgWith({<<TplV2>>}, AllImages, {TRUE}, {"loaded"}) /\ SnsIdle
SpecScan == InitScan /\ [][NextImg]_vars

\* one call of fetchAndDecryptImage, for a video or an image
InitMedia == DecIdle /\ ImgIdle /\ SnsIdle
SpecMedia == InitMedia /\ [][NextMedia]_vars

\* one call of decryptEmojiAes
InitEnv == DecIdle /\ ImgIdle /\ MediaIdle /\ InitEnvWith
SpecEnv == InitEnv /\ [][NextEnv]_vars
\* the call is synchronous: it runs to its return
SpecEnvFair == SpecEnv /\ WF_vars(NextEnv)

\* one call of decryptDatabase, of getImageKeys or of decryptEmojiAes
InitCalls == Init \/ InitImg \/ InitEnv
NextCalls == NextDec \/ NextImg \/ NextEnv
SpecCalls == InitCalls /\ [][NextCalls]_vars

(***************************************************************************)
(* Properties of decryptDatabase                                            *)
(***************************************************************************)
\* the arguments and the input file, as the properties speak of them
KeyWellFormed == Len(HexDecode(hexKey)) = KEY_SIZE
InputPage0 == BConcat(BSlice(inFile, 0, PAGE_SIZE),
                      Zeros(PAGE_SIZE - BLen(BSlice(inFile, 0, PAGE_SIZE))))
PlainInput == BSlice(inFile, 0, MAGIC_LEN) = <<Run(Sym.magic, 0, MAGIC_LEN)>>
HeaderMacDiffers ==
    HmacSha512(deriveKeys(HexDecode(hexKey), BSlice(InputPage0, 0, SALT_SIZE)).macKey,
               BSlice(InputPage0, SALT_SIZE, DataEnd), 1)
        # BSlice(InputPage0, DataEnd, DataEnd + HMAC_SIZE)
OutputUntouched ==
    /\ outExists = priorOut.exists
    /\ outFile = priorOut.data
    /\ ~outFdOpen
    /\ \A i \in DOMAIN ioLog : ioLog[i] \notin {"openw", "write", "copy"}
InputPage(n) == BSlice(inFile, n * PAGE_SIZE, (n + 1) * PAGE_SIZE)
InputPageCount == (BLen(inFile) + PAGE_SIZE - 1) \div PAGE_SIZE
ZeroPage(n) == InputPage(n) = Zeros(BLen(InputPage(n)))
WasDecrypted(n) == \E i \in DOMAIN decryptedPages : decryptedPages[i] = n

\* C1: with a well-formed key, an input that does not start with the
\* plaintext magic and a header HMAC that differs from the one recomputed with
\* the derived macKey, the output file is in no state created, truncated or
\* written, and the call, unless a file operation threw, returns the
\* key-validation failure.
C1_WrongKeyLeavesNoOutput ==
    (KeyWellFormed /\ ~PlainInput /\ HeaderMacDiffers)
        => /\ OutputUntouched
           /\ (pc = "done" /\ ~threw) => result = RES_KEY_INVALID

C1_Witness ==
    /\ KeyWellFormed /\ ~PlainInput /\ HeaderMacDiffers
    /\ pc = "done" /\ result = RES_KEY_INVALID
    /\ nHmac = 1
    /\ priorOut.exists /\ BLen(inFile) > PAGE_SIZE

\* C2: a hexKey that does not decode to exactly 32 bytes is answered with the
\* key-format failure before any file operation: nothing is stat'ed, opened or
\* read and the output is untouched, whatever the input file holds.
C2_BadKeyBeforeAnyIO ==
    ~KeyWellFormed
        => /\ ioLog = <<>>
           /\ ~fdOpen
           /\ OutputUntouched
           /\ pc \in {"call", "done"}
           /\ pc = "done" => result = RES_KEY_LENGTH

C2_Witness ==
    /\ pc = "done" /\ result = RES_KEY_LENGTH
    /\ Len(hexKey) = 30 /\ PlainInput /\ ioLog = <<>>

\* C3 (as claimed): when decryptDatabase returns a failure, the output path
\* holds either what it held before the call or a complete output.
C3_NoPartialOutput ==
    (pc = "done" /\ result # RES_OK)
        => \/ (outExists = priorOut.exists /\ outFile = priorOut.data)
           \/ (outExists /\ pagesWritten = totalPages
               /\ BSlice(outFile, 0, BLen(SQLITE_HEADER)) = SQLITE_HEADER)

C5_ZeroPagesPassThrough ==
    (KeyWellFormed /\ ~PlainInput)
        => \A n \in 0..(InputPageCount - 1) :
              ZeroPage(n)
                 => /\ ~WasDecrypted(n)
                    /\ (pc = "done" /\ result = RES_OK)
                          => LET lo == n * PAGE_SIZE + (IF n = 0 THEN SALT_SIZE ELSE 0)
                                 hi == n * PAGE_SIZE + BLen(InputPage(n))
                             IN  /\ BLen(outFile) >= hi
                                 /\ BSlice(outFile, lo, hi) = BSlice(inFile, lo, hi)

C5_Witness ==
    /\ KeyWellFormed /\ ~PlainInput
    /\ pc = "done" /\ result = RES_OK
    /\ InputPageCount = 3
    /\ ZeroPage(1) /\ ~ZeroPage(0) /\ ~ZeroPage(2)
    /\ decryptedPages = <<0, 2>>

\* C6: once the header validation has passed, a page whose HMAC does not
\* verify does not end the call: unless a file operation or the callback
\* threw, the call returns success, that page and every later non-zero page
\* were decrypted, and every page was written.
C6_PageMacMismatchIsNotFatal ==
    (pc = "done" /\ ~threw /\ macFailPages # {})
        => /\ result = RES_OK
           /\ pagesWritten = totalPages
           /\ \A n \in 0..(totalPages - 1) : WasDecrypted(n) \/ ZeroPage(n)

C6_Witness ==
    /\ pc = "done" /\ result = RES_OK
    /\ totalPages = 3 /\ macFailPages = {1}
    /\ decryptedPages = <<0, 1, 2>>
    /\ BLen(outFile) = 3 * PAGE_SIZE


(***************************************************************************)
(* Properties of getImageKeys                                               *)
(***************************************************************************)
Count(log, e) == Cardinality({i \in DOMAIN log : log[i] = e})

\* cand stands in the memory of the process, as 32 bytes or as UTF-16LE
InMemory(cand) ==
    \E k \in DOMAIN memMap : \E o \in 0..(Len(memMap[k].Bytes) - CAND_CHARS) :
        \/ Subarray(memMap[k].Bytes, o, o + CAND_CHARS) = cand
        \/ /\ o + 2 * CAND_CHARS <= Len(memMap[k].Bytes)
           /\ \A j \in 0..(CAND_CHARS - 1) :
                 /\ At(memMap[k].Bytes, o + 2 * j) = cand[j + 1]
                 /\ At(memMap[k].Bytes, o + 2 * j + 1) = 0

\* C7: an aesKey returned by getImageKeys is the first 16 characters of a
\* candidate of 32 letters and digits that stands in the memory of the
\* process and was passed to verifyKey, and decrypting the sample with it
\* under AES-128-ECB gives bytes that begin FF D8 FF.
C7_AesKeyIsVerified ==
    (imgPc = "done" /\ imgResult.aesKey # <<>>)
        => /\ imgResult.success
           /\ Len(imgResult.aesKey) = 16
           /\ \E cand \in verifyLog :
                 /\ Len(cand) = 32
                 /\ \A i \in 1..32 : isAlphaNumAscii(cand[i])
                 /\ SubSeq(cand, 1, 16) = imgResult.aesKey
                 /\ InMemory(cand)
           /\ SubSeq(AesEcbDecrypt(imgResult.aesKey, ciphertext), 1, 3) = <<255, 216, 255>>

C7_Witness ==
    /\ imgPc = "done" /\ imgResult.success
    /\ imgResult.aesKey = SubSeq(TrueCand, 1, 16)
    /\ TailCand \in verifyLog
    /\ attempt = 2

\* C8: with a sample, getImageKeys scans at most 3 times; a key found ends
\* the call at once with success; two attempts are always separated by a
\* delay, a delay follows a failed attempt and comes before another attempt;
\* and the not-found failure is returned only after 3 failed attempts, with
\* no delay after the third.
C8_ThreeAttempts ==
    /\ Count(imgLog, "attempt") <= 3
    /\ Count(imgLog, "delay") <= 2
    /\ \A i \in DOMAIN imgLog :
          /\ imgLog[i] = "found"
                => (i = Len(imgLog) /\ imgPc = "done" /\ imgResult.success
                    /\ imgResult.aesKey # <<>>)
          /\ imgLog[i] = "delay"
                => /\ i > 1 /\ imgLog[i - 1] \in {"close", "openFailed", "noKernel32"}
                   /\ i < Len(imgLog) => imgLog[i + 1] = "attempt"
                   /\ i = Len(imgLog) => imgPc \in {"delay", "attempt"}
          /\ (imgLog[i] = "attempt" /\ i > 1) => imgLog[i - 1] = "delay"
    /\ (imgPc = "done" /\ imgResult.error = ERR_NOT_FOUND)
          => /\ Count(imgLog, "attempt") = 3
             /\ Count(imgLog, "delay") = 2
             /\ Count(imgLog, "found") = 0
             /\ imgLog[Len(imgLog)] = "notFound"
             /\ imgLog[Len(imgLog) - 1] # "delay"
    /\ (imgPc = "done" /\ ciphertext # <<>> /\ ~imgResult.success
        /\ imgResult.error # ERR_EXCEPTION)
          => imgResult.error = ERR_NOT_FOUND

C8_Witness ==
    /\ imgPc = "done" /\ imgResult.error = ERR_NOT_FOUND
    /\ Count(imgLog, "attempt") = 3
    /\ Count(imgLog, "open") = 3
    /\ Count(imgLog, "delay") = 2

\* C9 (as claimed): when the process cannot be opened, getImageKeys fails
\* with an error other than the not-found error of a scan that found nothing.
C9_AccessErrorIsDistinct ==
    (imgPc = "done" /\ Count(imgLog, "attempt") > 0
     /\ Count(imgLog, "openFailed") = Count(imgLog, "attempt"))
        => (~imgResult.success /\ imgResult.error # ERR_NOT_FOUND)

\* a candidate of either shape starts at byte w of bytes and has len bytes
AsciiWindowAt(bytes, w) == w + CAND_CHARS + 2 <= Len(bytes) /\ AsciiKeyAt(bytes, w)
Utf16WindowAt(bytes, w) == isUtf16AsciiKey(bytes, w)
Utf16Key(bytes, w) == [j \in 1..CAND_CHARS |-> At(bytes, w + (j - 1) * 2)]
\* the bytes w .. w+len-1 lie in chunks read one after the other, and on both
\* sides of the boundary of two of them
Straddles(w, len) ==
    /\ scanFrom >= 0 /\ scanFrom <= w /\ w + len <= offset
    /\ \E b \in (w + 1)..(w + len - 1) : b % chunkSize = 0

\* C10 (as claimed): in a region read as chunks one after the other, a
\* candidate of either shape that lies across the boundary of two chunks
\* has been passed to verifyKey once the region is scanned to its end.
C10_NoCandidateLostAtBoundary ==
    (imgPc = "scan" /\ regionIdx <= Len(regions)
     /\ memMap[regions[regionIdx]].RegionSize <= MAX_REGION_SIZE
     /\ offset >= memMap[regions[regionIdx]].RegionSize)
        => LET bytes == MemBytes(regions[regionIdx]) IN
           \A w \in 0..(Len(bytes) - 1) :
              /\ (AsciiWindowAt(bytes, w) /\ Straddles(w, CAND_CHARS + 2))
                    => Subarray(bytes, w + 1, w + CAND_CHARS + 1) \in verifyLog
              /\ (Utf16WindowAt(bytes, w) /\ Straddles(w, 2 * CAND_CHARS))
                    => Utf16Key(bytes, w) \in verifyLog

(***************************************************************************)
(* Properties of the keystream decryption                                   *)
(***************************************************************************)
\* C11 (as claimed): for the same key and all 0 <= M <= N, the first M bytes
\* of the keystream obtained for length N are the keystream for length M.
C11_PrefixStable ==
    \A r \in ksLog : \A M \in 0..r.length :
        SubSeq(r.stream, 1, M) = getKeystream(mWasm, r.key, M)

\* C11 (amended): the keystream for a key and a length is always the same,
\* has that length, and for 0 <= M <= N with ceil(M/8) = ceil(N/8) the first
\* M bytes of the keystream for N are the keystream for M.
C11_PrefixStableWithinAlignment ==
    \A r \in ksLog :
        /\ Len(r.stream) = r.length
        /\ \A M \in 0..r.length :
              (M + 7) \div 8 = (r.length + 7) \div 8
                 => SubSeq(r.stream, 1, M) = getKeystream(mWasm, r.key, M)

C11_Witness ==
    /\ mPc = "done" /\ mKind = "image" /\ ~mWasm
    /\ \E r \in ksLog : /\ r.length = KS_ALIGN - 1
                        /\ r.key = <<"1", "2">>
                        /\ r.stream = SubSeq(getKeystream(mWasm, r.key, KS_ALIGN), 1, r.length)

\* C19: a video payload is XORed with the keystream at the indexes below
\* min(prefix, payload length) and is unchanged from the prefix on; an image
\* decrypted with an all-digit key is XORed at every index.
C19_VideoPrefixImageWhole ==
    (mPc = "done" /\ mKey # NoKey /\ Trim(mKey) # <<>>)
        => /\ Len(mOut) = Len(mRaw)
           /\ mKind = "video"
                 => \E r \in ksLog : \A i \in 1..Len(mRaw) :
                       mOut[i] = IF i <= MaxPrefix THEN Xor8(mRaw[i], r.stream[i])
                                 ELSE mRaw[i]
           /\ (mKind = "image" /\ IsDigits(Trim(mKey)))
                 => \E r \in ksLog :
                       /\ r.length = Len(mRaw)
                       /\ \A i \in 1..Len(mRaw) : mOut[i] = Xor8(mRaw[i], r.stream[i])

C19_Witness ==
    /\ mPc = "done" /\ mKind = "video" /\ Trim(mKey) = <<"7">>
    /\ Len(mRaw) = MaxPayload /\ MaxPayload > MaxPrefix
    /\ SubSeq(mOut, 1, MaxPrefix) # SubSeq(mRaw, 1, MaxPrefix)
    /\ SubSeq(mOut, MaxPrefix + 1, MaxPayload) = SubSeq(mRaw, MaxPrefix + 1, MaxPayload)


(***************************************************************************)
(* Properties of the envelope search                                        *)
(***************************************************************************)
Made == 1..envIdx
Searching == envPc \in {"search", "done"} /\ encData.len > 16

C13_FirstSuccessWins ==
    Searching
        => /\ Len(envOutcomes) = envIdx /\ envIdx <= Len(envTrials)
           /\ \A i \in Made :
                 envOutcomes[i] => /\ i = envIdx
                                   /\ envPc = "done"
                                   /\ envResult = TrialResult(envTrials[i], envLast)
                                   /\ ~envResult.isNull
           /\ (envPc = "done" /\ envResult.isNull)
                 => (envIdx = Len(envTrials) /\ \A i \in Made : ~envOutcomes[i])
           /\ (envPc = "done" /\ ~envResult.isNull) => envOutcomes[envIdx]
           /\ \A i, j \in DOMAIN envTrials :
                 (i < j /\ envTrials[j].family = "gcm") => envTrials[i].family = "gcm"
           /\ \A i \in DOMAIN envTrials :
                 envTrials[i].family # "gcm" => envTrials[i].keyLen = 16

C13_Witness ==
    /\ envPc = "done" /\ ~envResult.isNull
    /\ envTrials[envIdx].family = "cbc" /\ envTrials[envIdx].layout = "iv-head"
    /\ envIdx < Len(envTrials)
    /\ \E i \in DOMAIN envTrials : envTrials[i].keyLen = 32

\* the image magics as the claim lists them
ClaimedMagic(buf) ==
    \/ StartsWith(buf, <<71, 73, 70, 56, 55, 97>>)
    \/ StartsWith(buf, <<71, 73, 70, 56, 57, 97>>)
    \/ StartsWith(buf, <<137, 80, 78, 71, 13, 10, 26, 10>>)
    \/ StartsWith(buf, <<255, 216>>)
    \/ StartsWith(buf, <<82, 73, 70, 70>>) /\ Len(buf) >= 12 /\ SubSeq(buf, 9, 12) = <<87, 69, 66, 80>>

\* C14 (as claimed): a Buffer returned comes from a GCM trial whose tag
\* verified, or begins with GIF87a, GIF89a, the PNG signature, the JPEG SOI
\* or RIFF....WEBP.
C14_TagOrClaimedMagic ==
    (envPc = "done" /\ ~envResult.isNull)
        => \/ envTrials[envIdx].family = "gcm" /\ ~envLast.throws
           \/ ClaimedMagic(envResult.data)

\* C14 (amended): a Buffer returned comes from a GCM trial whose tag verified,
\* or has at least 12 bytes and begins with 47 49 46 ("GIF"), 89 50 4E 47,
\* FF D8 FF, or RIFF....WEBP; it is the plaintext of the trial or what
\* inflate / gunzip (unzip for GCM) makes of it.
C14_TagOrLooseMagic ==
    (envPc = "done" /\ ~envResult.isNull)
        => /\ \/ envTrials[envIdx].family = "gcm" /\ ~envLast.throws
              \/ /\ Len(envResult.data) >= 12
                 /\ \/ SubSeq(envResult.data, 1, 3) = <<71, 73, 70>>
                    \/ SubSeq(envResult.data, 1, 4) = <<137, 80, 78, 71>>
                    \/ SubSeq(envResult.data, 1, 3) = <<255, 216, 255>>
                    \/ /\ SubSeq(envResult.data, 1, 4) = <<82, 73, 70, 70>>
                       /\ SubSeq(envResult.data, 9, 12) = <<87, 69, 66, 80>>
           /\ ~envLast.throws
           /\ envResult.data \in {envLast.data, SubSeq(envLast.data, 3, Len(envLast.data))}

C14_Witness ==
    /\ envPc = "done" /\ ~envResult.isNull
    /\ envTrials[envIdx].family = "ecb"
    /\ envResult.data = GifOdd

\* C15: an envelope of 16 bytes or fewer is rejected with no trial; for any
\* other, at most 47 trials are made whatever its length and content, and
\* the call returns.
C15_Inv ==
    /\ envIdx <= 47 /\ Len(envTrials) <= 47
    /\ encData.len <= 16 => (envIdx = 0 /\ envTrials = <<>> /\ envResult.isNull)
    /\ (envPc = "done" /\ envResult.isNull /\ encData.len > 16) => envIdx = Len(envTrials)
C15_BoundedSearch == []C15_Inv /\ <>(envPc = "done")

C15_Witness ==
    /\ envPc = "done" /\ envResult.isNull
    /\ envIdx = 47


(***************************************************************************)
(* Properties of the XOR key                                                *)
(***************************************************************************)
\* the files with at least two bytes, and the last two bytes of one
TwoByteFiles == {i \in DOMAIN templateFiles : Len(templateFiles[i]) >= 2}
LastTwo(i) == SubSeq(templateFiles[i], Len(templateFiles[i]) - 1, Len(templateFiles[i]))
Votes(i) == Cardinality({k \in TwoByteFiles : LastTwo(k) = LastTwo(i)})
\* the file whose pair has the most votes, the earliest such pair at a tie
Elected(i) ==
    /\ i \in TwoByteFiles
    /\ \A k \in TwoByteFiles : Votes(k) <= Votes(i)
    /\ \A k \in TwoByteFiles : (k < i /\ Votes(k) = Votes(i)) => LastTwo(k) = LastTwo(i)
PairAgrees(i) == Xor8(LastTwo(i)[1], 255) = Xor8(LastTwo(i)[2], 217)

\* C18: a call that returns an XOR key k returns it for the most frequent pair
\* (x, y) of last two bytes, with k = x XOR 0xFF = y XOR 0xD9; when that pair
\* fails the test, or no template has two bytes, getImageKeys fails with the
\* XOR-key error and has read no memory.
C18_XorKeyByMajority ==
    (imgPc \notin {"idle", "call"} /\ templateFiles # <<>>)
        => IF \E i \in TwoByteFiles : Elected(i) /\ PairAgrees(i)
           THEN /\ imgResult.error # ERR_NO_XOR_KEY
                /\ imgResult.xorKey # -1
                      => \E i \in TwoByteFiles :
                            /\ Elected(i)
                            /\ imgResult.xorKey = Xor8(LastTwo(i)[1], 255)
                            /\ imgResult.xorKey = Xor8(LastTwo(i)[2], 217)
                /\ (imgPc = "done" /\ imgResult.success) => imgResult.xorKey # -1
           ELSE /\ imgPc = "done"
                /\ imgResult = [success |-> FALSE, xorKey |-> -1, aesKey |-> <<>>,
                                error |-> ERR_NO_XOR_KEY]
                /\ imgLog = <<>> /\ verifyLog = {} /\ regions = <<>>
                /\ handles = 0 /\ attempt = 0 /\ scanFrom = -1

C18_Witness ==
    /\ imgPc = "done" /\ imgResult.success
    /\ imgResult.xorKey = 55
    /\ Len(templateFiles) = 3
    /\ \E i \in TwoByteFiles : ~PairAgrees(i)

\* the vote lost, or no vote at all: the failure before any scan
C18_WitnessNull ==
    /\ imgPc = "done" /\ imgResult.error = ERR_NO_XOR_KEY
    /\ \E i \in TwoByteFiles : PairAgrees(i)


(***************************************************************************)
(* Properties of the progress report                                        *)
(***************************************************************************)
\* C20 (as claimed): when the page at an index that is a multiple of 50 has
\* been processed and the call goes on, the callback has been invoked with
\* (index + 1, totalPages) and the call yields before it reads the next page.
C20_YieldEveryCadence ==
    [][(pc = "loop" /\ pageNum < totalPages /\ pageNum % 50 = 0 /\ pc' # "done")
          => /\ pc' = "yield"
             /\ onProgress => progressLog' = Append(progressLog, <<pageNum + 1, totalPages>>)]_vars

\* what the code does: the same, for the pages that are not all zero
C20_YieldAtNonZeroPages ==
    [][(pc = "loop" /\ pageNum < totalPages /\ pageNum % 50 = 0 /\ pc' # "done"
          /\ ~ZeroPage(pageNum))
          => /\ pc' = "yield"
             /\ onProgress => progressLog' = Append(progressLog, <<pageNum + 1, totalPages>>)]_vars


AloneKeys(c) == deriveKeys(HexDecode(c.hexKey), BSlice(c.inFile, 0, SALT_SIZE))
AlonePageCount(c) == (BLen(c.inFile) + PAGE_SIZE - 1) \div PAGE_SIZE
RECURSIVE AloneBuf(_, _)
\* pageBuf after the read of page n
AloneBuf(c, n) ==
    ReadInto(IF n = 0 THEN Zeros(PAGE_SIZE) ELSE AloneBuf(c, n - 1), c.inFile, n * PAGE_SIZE)
\* what is written for page n
AlonePage(c, n) ==
    LET bytesRead == Min(PAGE_SIZE, BLen(c.inFile) - n * PAGE_SIZE)
        buf == AloneBuf(c, n)
    IN  IF BSlice(buf, 0, bytesRead) = Zeros(bytesRead)
        THEN BSlice(buf, IF n = 0 THEN SALT_SIZE ELSE 0, bytesRead)
        ELSE decryptPage(buf, AloneKeys(c).encKey, AloneKeys(c).macKey, n).result
AloneIsPlain(c) == BSlice(c.inFile, 0, 15) = <<Run(Sym.magic, 0, 15)>>
AloneResult(c) ==
    IF Len(HexDecode(c.hexKey)) # 32 THEN "error: key length"
    ELSE IF AloneIsPlain(c) THEN "success"
    ELSE IF ~validateKey(c.inFile, c.hexKey, FALSE).valid THEN "error: key validation failed"
    ELSE "success"
AloneOutput(c) ==
    IF AloneResult(c) # "success" THEN c.priorOut.data
    ELSE IF AloneIsPlain(c) THEN c.inFile
    ELSE Norm(SQLITE_HEADER
              \o Flatten([n \in 1..AlonePageCount(c) |-> AlonePage(c, n - 1)]))
\* a call that ended without an exception has the result and the output file
\* of the call alone (validateKey turns an I/O failure of its own into "key
\* invalid", which leaves the output file as it was)
AsAlone(c) ==
    (c.pc = "done" /\ ~c.threw)
        => /\ \/ c.result = AloneResult(c)
              \/ c.result = "error: key validation failed" /\ AloneResult(c) = "success"
           /\ c.outFile = IF c.result = "success" THEN AloneOutput(c) ELSE c.priorOut.data

\* C17: of two interleaved calls on different input files and output paths,
\* each one that ends without an exception has the result and the output
\* file it has when it runs alone.
C17_InterleavedAsAlone ==
    /\ AsAlone(Current)
    /\ parked # NoCall => AsAlone(parked)

\* both calls decrypted their file, each in two turns of the event loop with
\* a turn of the other in between
C17_Witness ==
    /\ pc = "done" /\ result = RES_OK /\ ~threw
    /\ parked # NoCall /\ parked.pc = "done" /\ parked.result = RES_OK /\ ~parked.threw
    /\ switches >= 3
    /\ pagesWritten >= 2 /\ parked.pagesWritten >= 2

(***************************************************************************)
(* Properties of ensureKernel32 and of the process handle                   *)
(***************************************************************************)
\* the attempts of the call in which ensureKernel32 returned true
PassedEnsure == {i \in DOMAIN imgLog : imgLog[i] = "attempt" /\ imgLog[i + 1] # "noKernel32"}

\* C27 (as claimed): whenever ensureKernel32 returned true, the four native
\* functions and the memory-info struct are all initialised.
C27_TrueMeansInitialised ==
    PassedEnsure # {} => bindings = AllBound

\* C24 (as claimed): at most one process handle is open at any time, and
\* the handle of an attempt is closed before the delay that follows it and
\* before getImageKeys returns.
C24_HandleClosedOnEveryExit ==
    /\ handles <= 1
    /\ imgPc \in {"retry", "delay", "attempt", "done"} => handles = 0

\* C30 (as claimed): once a region of at most MAX_REGION_SIZE bytes has
\* been scanned to its end with every chunk read, every candidate of either
\* shape that lies inside the region has been passed to verifyKey, the ones
\* that end at the last byte of the region included.
C30_EveryCandidateInRegionVerified ==
    (imgPc = "scan" /\ regionIdx <= Len(regions)
     /\ memMap[regions[regionIdx]].RegionSize <= MAX_REGION_SIZE
     /\ scanFrom = 0
     /\ offset >= memMap[regions[regionIdx]].RegionSize)
        => LET bytes == MemBytes(regions[regionIdx]) IN
           \A w \in 0..(Len(bytes) - 1) :
              /\ AsciiWindowAt(bytes, w)
                    => Subarray(bytes, w + 1, w + CAND_CHARS + 1) \in verifyLog
              /\ Utf16WindowAt(bytes, w) => Utf16Key(bytes, w) \in verifyLog

(***************************************************************************)
(* Properties of the page loop of decryptDatabase                           *)
(***************************************************************************)
\* the I/O of the call after the header was written to the output file
LoopStart == CHOOSE i \in DOMAIN ioLog : ioLog[i] = "openw" /\ i < Len(ioLog)
LoopLog == SubSeq(ioLog, LoopStart + 2, Len(ioLog))
InLoop == pc \in {"loop", "yield"} \/ pagesWritten > 0
\* the output file after the first n pages were written, each from the page
\* buffer as the read of its own page left it
OutputUpTo(n) ==
    Norm(SQLITE_HEADER \o Flatten([k \in 1..n |-> AlonePage(Current, k - 1)]))

\* C23: the pages are read and written in ascending order, one read into
\* the page buffer and one write per page (the last write may be the one
\* that threw) and the read of a page after the write of the page before
\* it; the output file holds the header and then output pages 0 .. n-1 in
\* this order when page n is written; no page is decrypted twice.
C23_PagesInAscendingOrder ==
    InLoop =>
       /\ pagesWritten \in {pageNum, pageNum + 1}
       /\ pc \in {"loop", "yield"} => pagesWritten = pageNum
       /\ \A i \in DOMAIN LoopLog :
             LoopLog[i] \in {"read", "write"}
                => LoopLog[i] = (IF i % 2 = 1 THEN "read" ELSE "write")
       /\ Count(LoopLog, "read") \in {pagesWritten, pagesWritten + 1}
       /\ Count(LoopLog, "write") \in {pagesWritten, pagesWritten + 1}
       /\ ~threw => Count(LoopLog, "write") = pagesWritten
       /\ outFile = OutputUpTo(pagesWritten)
       /\ \A i, j \in DOMAIN decryptedPages :
             i < j => decryptedPages[i] < decryptedPages[j]
       /\ \A i \in DOMAIN decryptedPages : decryptedPages[i] < pagesWritten + 1

\* a file of three different pages was decrypted to the end
C23_Witness ==
    /\ pc = "done" /\ result = RES_OK
    /\ pagesWritten = MaxPages /\ pageNum = MaxPages
    /\ decryptedPages = [i \in 1..MaxPages |-> i - 1]
    /\ Count(LoopLog, "read") = MaxPages

\* C22 (as claimed): a call that decrypted an encrypted file derived the
\* keys exactly once.
C22_KeysDerivedOnce ==
    (pc = "done" /\ result = RES_OK /\ ~PlainInput) => nDerive = 1

\* the pages of the output when every page is decrypted in a buffer that
\* holds the bytes of its own input page only
OwnBuf(n) == ReadInto(Zeros(PAGE_SIZE), inFile, n * PAGE_SIZE)
OwnPage(n) ==
    IF AllZero(BSlice(OwnBuf(n), 0, BytesRead(inFile, n * PAGE_SIZE)))
    THEN BSlice(OwnBuf(n), IF n = 0 THEN SALT_SIZE ELSE 0, BytesRead(inFile, n * PAGE_SIZE))
    ELSE decryptPage(OwnBuf(n), encKey, macKey, n).result
OwnOutput == Norm(SQLITE_HEADER \o Flatten([n \in 1..InputPageCount |-> OwnPage(n - 1)]))

\* C25 (as claimed): the output of a successful call on an encrypted file
\* has the length of the input, and each of its pages comes from the bytes
\* of the same page of the input only.
C25_OutputHasInputLength ==
    (pc = "done" /\ result = RES_OK /\ ~PlainInput)
        => /\ BLen(outFile) = BLen(inFile)
           /\ outFile = BSlice(OwnOutput, 0, BLen(inFile))

\* C26 (as claimed): when the call has returned, the input descriptor and
\* the output descriptor are closed.
C26_DescriptorsClosedOnReturn ==
    pc = "done" => ~fdOpen /\ ~outFdOpen

(***************************************************************************)
(* Properties of the envelope search (continued)                            *)
(***************************************************************************)
\* the plaintext is an image as it is, or after inflate or gunzip
ImageOrCompressedImage(dec) ==
    /\ ~dec.throws
    /\ \/ isValidImageBuffer(dec.data)
       \/ FirstImage(<<inflateSync(dec.data), gunzipSync(dec.data)>>) # <<>>

\* C21 (as claimed): when the decipher of a fallback trial (CBC with either
\* IV, or ECB) gives an image or a compressed image, the search returns a
\* Buffer.
C21_FallbackTriesDecompression ==
    (envIdx >= 1 /\ envIdx <= Len(envTrials)
     /\ envTrials[envIdx].family \in {"cbc", "ecb"}
     /\ ImageOrCompressedImage(envLast))
        => envPc = "done" /\ ~envResult.isNull

\* the GCM trials made so far, and what each one gave to tryGcmDecrypt
GcmMade == {i \in Made : envTrials[i].family = "gcm"}
SplitOf(i) == GcmSplit(envTrials[i].layout, encData, envTrials[i].keyLen)
Size(part) == part.to - part.from

\* C28 (as claimed): no two GCM trials of one search use the same key with
\* the same nonce, ciphertext and tag.
C28_NoSplitTriedTwice ==
    Searching =>
       \A i, j \in GcmMade :
          (i < j /\ envTrials[i].key = envTrials[j].key) => SplitOf(i) # SplitOf(j)

\* C29: every GCM trial of the search of an envelope of more than 16 bytes
\* has a nonce of 12 bytes (of the envelope, of the key, or zeros), a tag of
\* 16 bytes and a ciphertext of at least one byte, tag and ciphertext inside
\* the envelope; the layout "gcmdata-block" is among the trials only when
\* bytes 0, 8, 9 are AB, AB, 00 and the payload length at offset 10 is
\* above 16 and ends inside the envelope.
C29_SplitsWellFormed ==
    Searching =>
       \A i \in DOMAIN envTrials :
          envTrials[i].family = "gcm" =>
             /\ Size(SplitOf(i).nonce) = 12
             /\ Size(SplitOf(i).tag) = 16
             /\ Size(SplitOf(i).ciphertext) >= 1
             /\ \A part \in {SplitOf(i).nonce, SplitOf(i).tag, SplitOf(i).ciphertext} :
                   /\ part.from >= 0
                   /\ part.src = "encData" => part.to <= encData.len
                   /\ part.src = "key" => part.to <= envTrials[i].keyLen
             /\ SplitOf(i).tag.src = "encData" /\ SplitOf(i).ciphertext.src = "encData"
             /\ envTrials[i].layout = "gcmdata-block" =>
                   /\ encData.b0 = 171 /\ encData.b8 = 171 /\ encData.b9 = 0
                   /\ encData.payloadSize > 16
                   /\ 63 + encData.payloadSize <= encData.len
                   /\ SplitOf(i).nonce = [src |-> "encData", from |-> 19, to |-> 31]
                   /\ SplitOf(i).ciphertext.from = 63
                   /\ SplitOf(i).tag.to = 63 + encData.payloadSize

\* a search of an envelope of 17 bytes, and one of a tagged block, went
\* through all their GCM trials
C29_Witness ==
    /\ envPc = "done" /\ envIdx = Len(envTrials)
    /\ \E i \in GcmMade : envTrials[i].layout = "zero-nonce"
    /\ \/ encData.len = 17
       \/ \E i \in GcmMade : envTrials[i].layout = "gcmdata-block"

=============================================================================
